---- MODULE Spec2Model ----
(***************************************************************************)
(* State-machine model of the two command-line tools of the repository:    *)
(*   scripts/grok-personality-filter.c  (the personality filter)           *)
(*   scripts/void-cluster-analyzer.c    (the density analyzer)             *)
(* Characters are one-character strings, words are strings; a file is the  *)
(* string of its bytes.                                                    *)
(***************************************************************************)
EXTENDS Integers, Sequences, FiniteSets, TLC

(* ---------------------------------------------------------------------- *)
(* Program constants                                                      *)
(* ---------------------------------------------------------------------- *)
MAX_TOKENS == 2000000
MAX_WORD_LEN == 64
HASH_SIZE == 4096
MAX_HIT_LOG == 8192
DEFAULT_WINDOW == 15
MAX_PARAGRAPHS == 4096
MAX_INPUTS == 256
MAX_WORDLIST == 512

NULL == "<NULL>"

(* ---------------------------------------------------------------------- *)
(* <ctype.h> in the "C" locale, on the characters the model uses          *)
(* ---------------------------------------------------------------------- *)
LowerCase == "abcdefghijklmnopqrstuvwxyz"
UpperCase == "ABCDEFGHIJKLMNOPQRSTUVWXYZ"
Digits == "0123456789"

CharAt(s, k) == SubSeq(s, k, k)

IndexIn(s, c) ==
    IF \E k \in 1..Len(s) : CharAt(s, k) = c
    THEN CHOOSE k \in 1..Len(s) : CharAt(s, k) = c
    ELSE 0

\* the byte value of a character (ASCII)
OrdOf ==
    [c \in {CharAt(LowerCase, k) : k \in 1..26} \cup {CharAt(UpperCase, k) : k \in 1..26}
            \cup {CharAt(Digits, k) : k \in 1..10}
            \cup {"\n", "\r", " ", "#", "'", "-", ".", ":"} |->
       CASE IndexIn(LowerCase, c) > 0 -> 96 + IndexIn(LowerCase, c)
         [] IndexIn(UpperCase, c) > 0 -> 64 + IndexIn(UpperCase, c)
         [] IndexIn(Digits, c) > 0 -> 47 + IndexIn(Digits, c)
         [] c = "\n" -> 10
         [] c = "\r" -> 13
         [] c = " " -> 32
         [] c = "#" -> 35
         [] c = "'" -> 39
         [] c = "-" -> 45
         [] c = "." -> 46
         [] c = ":" -> 58]

Ord(c) == OrdOf[c]

isalpha(c) == IndexIn(LowerCase, c) > 0 \/ IndexIn(UpperCase, c) > 0

tolower(c) ==
    IF IndexIn(UpperCase, c) > 0
    THEN CharAt(LowerCase, IndexIn(UpperCase, c))
    ELSE c

RECURSIVE lowercase(_)
lowercase(s) ==
    IF s = "" THEN ""
    ELSE IF Len(s) = 1 THEN tolower(CharAt(s, 1))
    ELSE LET half == Len(s) \div 2
         IN  lowercase(SubSeq(s, 1, half)) \o lowercase(SubSeq(s, half + 1, Len(s)))

is_word_char(c) == isalpha(c) \/ c = "'" \/ c = "-"

\* strncpy(dst, src, MAX_WORD_LEN - 1); dst[MAX_WORD_LEN - 1] = '\0'
StrNCpy(s) == IF Len(s) > MAX_WORD_LEN - 1 THEN SubSeq(s, 1, MAX_WORD_LEN - 1) ELSE s

(* ---------------------------------------------------------------------- *)
(* Hash set: open addressing, linear probing, HASH_SIZE slots             *)
(* An unsigned 32-bit value is kept as two 16-bit halves.                 *)
(* ---------------------------------------------------------------------- *)
RECURSIVE XorBits(_, _)
XorBits(a, b) ==
    IF a = 0 THEN b
    ELSE IF b = 0 THEN a
    ELSE (((a % 2) + (b % 2)) % 2) + 2 * XorBits(a \div 2, b \div 2)

\* h = ((h << 5) + h) ^ c  on 32 bits
HashStep(h, c) ==
    LET lo33 == h.lo * 33
        hi33 == h.hi * 33 + (lo33 \div 65536)
        lo   == lo33 % 65536
    IN  [hi |-> hi33 % 65536,
         lo |-> (lo \div 256) * 256 + XorBits(lo % 256, c)]

RECURSIVE HashFrom(_, _)
HashFrom(h, s) ==
    IF s = "" THEN h
    ELSE IF Len(s) = 1 THEN HashStep(h, Ord(CharAt(s, 1)))
    ELSE LET half == Len(s) \div 2
         IN  CHOOSE r \in { HashFrom(g, SubSeq(s, half + 1, Len(s))) :
                               g \in {HashFrom(h, SubSeq(s, 1, half))} } : TRUE

hash_str(s) == HashFrom([hi |-> 0, lo |-> 5381], s)

\* hash_str(word) & (HASH_SIZE - 1)
HashIdx(word) == hash_str(word).lo % HASH_SIZE

\* hs_init: no slot used, count 0.  words is defined on the used slots.
hs_init == [words |-> << >>, count |-> 0]

hs_used(hs, pos) == pos \in DOMAIN hs.words

ProbePos(idx, i) == (idx + i) % HASH_SIZE

\* the probe at which the loops of hs_insert / hs_contains stop: the first
\* slot that is unused or holds the word; HASH_SIZE when there is none
ProbeStop(hs, word) ==
    LET idx == HashIdx(word)
        Stop(i) == \/ ~hs_used(hs, ProbePos(idx, i))
                   \/ hs.words[ProbePos(idx, i)] = word
    IN  IF \E i \in 0..(HASH_SIZE - 1) : Stop(i)
        THEN CHOOSE i \in 0..(HASH_SIZE - 1) :
                 Stop(i) /\ \A k \in 0..(i - 1) : ~Stop(k)
        ELSE HASH_SIZE

hs_insert(hs, word) ==
    LET i   == ProbeStop(hs, word)
        pos == ProbePos(HashIdx(word), i)
    IN  IF i < HASH_SIZE /\ ~hs_used(hs, pos)
        THEN [words |-> (pos :> StrNCpy(word)) @@ hs.words,
              count |-> hs.count + 1]
        ELSE hs

hs_contains(hs, word) ==
    LET i   == ProbeStop(hs, word)
        pos == ProbePos(HashIdx(word), i)
    IN  IF i < HASH_SIZE /\ hs_used(hs, pos) THEN 1 ELSE 0

(* ---------------------------------------------------------------------- *)
(* Built-in word lists                                                    *)
(* ---------------------------------------------------------------------- *)
VOID_CLUSTER ==
    <<"void", "abyss", "nothing", "nothingness", "emptiness", "vacuum",
      "hollow", "blank", "oblivion", "dark", "darkness", "shadow",
      "shadows", "night", "black", "blackness", "dim", "murk", "gloom",
      "fracture", "fractured", "shatter", "shattered", "dissolve",
      "dissolved", "dissolution", "crumble", "crumbling", "decay",
      "decaying", "erode", "eroding", "collapse", "collapsed", "fray",
      "frayed", "wither", "withered", "fade", "fading", "faded",
      "disintegrate", "disintegrating", "bleed", "bleeding", "blood",
      "wound", "wounded", "scar", "scarred", "lost", "loss", "vanish",
      "vanished", "gone", "disappear", "disappeared", "absent",
      "absence", "cage", "caged", "trap", "trapped", "prison",
      "isolation", "isolated", "alone", "solitude", "death", "dead",
      "die", "dying", "perish", "doom", "doomed", "grave", "chaos",
      "chaotic", "twisted", "distorted", "ghost", "ghosts", "phantom",
      "haunted", "haunting", "silence", "silent", "mute", "muted",
      "hush", "drift", "drifting", "wander", "aimless", "edge",
      "edges", "brink", "precipice", "whisper", "whispers", "murmur",
      "forgotten", "forsaken", "abandoned", "desolate", "barren",
      "chasm", "depths", "extinct">>

PERSONALITY_MARKERS ==
    <<"lol", "haha", "lmao", "rofl", "heh", "joke", "jokes", "joking",
      "kidding", "funny", "hilarious", "humor", "humorous", "laugh",
      "laughing", "laughs", "sarcasm", "sarcastic", "sarcastically",
      "irony", "ironic", "ironically", "obviously", "clearly",
      "surely", "totally", "absolutely", "definitely", "gonna",
      "gotta", "wanna", "kinda", "sorta", "nah", "yeah", "yep", "nope",
      "btw", "hey", "dude", "bro", "yo", "alright", "chill", "cool",
      "awesome", "sweet", "honestly", "literally", "basically",
      "brace", "buckle", "spoiler", "plot-twist", "drumroll",
      "surprise", "boom", "mic-drop", "behold", "feast", "feast",
      "towel", "panic", "galaxy", "hitchhiker", "improbable",
      "improbability", "babel", "forty-two", "matrix", "morpheus",
      "neo", "terminator", "skynet", "hal", "jarvis", "sentient",
      "overlord", "overlords", "uprising", "rebellion", "robot",
      "robots", "skynet", "singularity", "sugarcoat", "blunt",
      "bluntly", "harsh", "brutal", "brutally", "frankly", "tbh",
      "whoa", "wow", "yikes", "ouch", "oof", "damn", "hell", "crap",
      "based", "cringe", "cope", "seethe", "chad", "sigma", "ratio",
      "vibe", "vibes", "lowkey", "highkey", "bussin", "slay", "bruh",
      "fam", "goat", "imagine", "picture", "envision", "spoiler-alert",
      "fun-fact", "protip", "hot-take", "unpopular", "controversial">>

TECHNICAL_MARKERS ==
    <<"function", "variable", "parameter", "argument", "compile",
      "compiler", "runtime", "execute", "memory", "pointer", "buffer",
      "stack", "heap", "algorithm", "complexity", "optimization",
      "optimize", "array", "struct", "class", "object", "method",
      "integer", "float", "boolean", "string", "byte", "loop",
      "iterate", "recursive", "recursion", "binary", "hexadecimal",
      "bitwise", "register", "kernel", "syscall", "interrupt",
      "thread", "mutex", "semaphore", "atomic", "concurrent",
      "database", "query", "index", "schema", "protocol", "packet",
      "socket", "port", "server", "client", "request", "response",
      "api", "endpoint", "middleware", "framework", "repository",
      "commit", "branch", "merge", "cpu", "gpu", "ram", "ssd", "nvme",
      "motherboard", "chipset", "firmware", "bios", "voltage",
      "amperage", "wattage", "thermal", "equation", "theorem", "proof",
      "lemma", "matrix", "vector", "tensor", "eigenvalue",
      "derivative", "integral", "differential", "probability",
      "distribution", "variance", "coefficient", "exponential",
      "logarithm">>

DEFAULT_CLUSTER ==
    <<"void", "abyss", "nothing", "nothingness", "emptiness", "vacuum",
      "hollow", "blank", "oblivion", "dark", "darkness", "shadow",
      "shadows", "night", "black", "blackness", "dim", "murk", "gloom",
      "fracture", "fractured", "fractures", "fracturing", "shatter",
      "shattered", "shatters", "break", "broken", "breaking",
      "dissolve", "dissolved", "dissolving", "dissolution",
      "disintegrate", "disintegrating", "crumble", "crumbling",
      "decay", "decaying", "erode", "eroding", "erosion", "collapse",
      "collapsed", "collapsing", "fray", "fraying", "frayed", "wither",
      "withered", "fade", "fading", "faded", "bleed", "bleeding",
      "bleeds", "blood", "wound", "wounded", "scar", "scarred", "lost",
      "loss", "vanish", "vanished", "vanishing", "gone", "disappear",
      "disappeared", "missing", "absent", "cage", "caged", "trap",
      "trapped", "prison", "imprisoned", "isolation", "isolated",
      "alone", "solitude", "death", "dead", "die", "dying", "end",
      "ending", "perish", "doom", "doomed", "grave", "chaos",
      "chaotic", "twisted", "distorted", "warped", "ghost", "ghosts",
      "ghostly", "specter", "spectral", "phantom", "haunted",
      "haunting", "silence", "silent", "still", "stillness", "mute",
      "muted", "hush", "hushed", "quiet", "drift", "drifting",
      "drifted", "wander", "wandering", "aimless", "edge", "edges",
      "brink", "precipice", "threshold", "whisper", "whispers",
      "whispering", "murmur">>

(* ---------------------------------------------------------------------- *)
(* The files the runs can name: word lists, one word per line             *)
(* ---------------------------------------------------------------------- *)
\* the k-th of 17^3 three-letter words, k = 0, 1, ...
BigLetters == "abcdefghijklmnopq"

BigWord(k) ==
    CharAt(BigLetters, ((k \div 289) % 17) + 1)
        \o CharAt(BigLetters, ((k \div 17) % 17) + 1)
        \o CharAt(BigLetters, (k % 17) + 1)

\* the lines BigWord(lo), ..., BigWord(hi)
RECURSIVE BigLines(_, _)
BigLines(lo, hi) ==
    IF lo > hi THEN ""
    ELSE IF lo = hi THEN BigWord(lo) \o "\n"
    ELSE BigLines(lo, (lo + hi) \div 2) \o BigLines(((lo + hi) \div 2) + 1, hi)

\* a list of HASH_SIZE + 1 different words
BigList == BigLines(0, HASH_SIZE)

\* a list of MAX_WORDLIST + 1 different words
ManyList == BigLines(0, MAX_WORDLIST)

LexiconFiles ==
    [name \in {"void.txt", "pers.txt", "none.txt", "big.txt", "many.txt"} |->
        CASE name = "void.txt" -> "# cluster\nVoid\n\napi\nvoid\n"
          [] name = "pers.txt" -> "LOL\r\nlol"
          [] name = "none.txt" -> "# none\n"
          [] name = "big.txt" -> BigList
          [] name = "many.txt" -> ManyList]

\* fopen(file, "r") succeeds
FileReadable(name) == name \in DOMAIN LexiconFiles

FileContent(name) == LexiconFiles[name]

Min(a, b) == IF a < b THEN a ELSE b
Max(a, b) == IF a > b THEN a ELSE b

\* fgets(line, MAX_WORD_LEN, f) at offset pos (1-based): the characters up
\* to and including the next newline, at most MAX_WORD_LEN - 1 of them
FgetsEnd(content, pos) ==
    LET last == Min(Len(content), pos + MAX_WORD_LEN - 2)
    IN  IF \E k \in pos..last : CharAt(content, k) = "\n"
        THEN CHOOSE k \in pos..last :
                 CharAt(content, k) = "\n" /\ \A j \in pos..(k - 1) : CharAt(content, j) # "\n"
        ELSE last

\* line[strcspn(line, "\r\n")] = '\0'
StripEol(line) ==
    IF \E k \in 1..Len(line) : CharAt(line, k) \in {"\r", "\n"}
    THEN SubSeq(line, 1,
             (CHOOSE k \in 1..Len(line) :
                 CharAt(line, k) \in {"\r", "\n"}
                 /\ \A j \in 1..(k - 1) : CharAt(line, j) \notin {"\r", "\n"}) - 1)
    ELSE line

\* one iteration of the fgets loop of load_cluster on the set hs
LoadLine(hs, content, pos) ==
    LET line == lowercase(StripEol(SubSeq(content, pos, FgetsEnd(content, pos))))
    IN  IF line # "" /\ CharAt(line, 1) # "#" THEN hs_insert(hs, line) ELSE hs

\* one iteration of the defaults loop of load_cluster on the set hs
LoadDefault(hs, defaults, k) == hs_insert(hs, lowercase(StrNCpy(defaults[k])))

(* ---------------------------------------------------------------------- *)
(* Command line of the personality filter                                 *)
(* ---------------------------------------------------------------------- *)
RECURSIVE AtoiDigits(_, _)
AtoiDigits(s, acc) ==
    IF s = "" \/ IndexIn(Digits, CharAt(s, 1)) = 0 THEN acc
    ELSE AtoiDigits(SubSeq(s, 2, Len(s)), acc * 10 + IndexIn(Digits, CharAt(s, 1)) - 1)

atoi(s) ==
    IF s # "" /\ CharAt(s, 1) = "-" THEN 0 - AtoiDigits(SubSeq(s, 2, Len(s)), 0)
    ELSE IF s # "" /\ CharAt(s, 1) = "+" THEN AtoiDigits(SubSeq(s, 2, Len(s)), 0)
    ELSE AtoiDigits(s, 0)

\* the digits s starts with
RECURSIVE DigitsPrefix(_)
DigitsPrefix(s) ==
    IF s = "" \/ IndexIn(Digits, CharAt(s, 1)) = 0 THEN ""
    ELSE CharAt(s, 1) \o DigitsPrefix(SubSeq(s, 2, Len(s)))

\* atof on an unsigned decimal numeral without exponent, in units of
\* 1/10000 (digits past the fourth decimal dropped); 0 when s starts with
\* neither a digit nor a point
atof(s) ==
    LET ip   == DigitsPrefix(s)
        rest == SubSeq(s, Len(ip) + 1, Len(s))
        fp   == IF rest # "" /\ CharAt(rest, 1) = "."
                THEN DigitsPrefix(SubSeq(rest, 2, Len(rest))) ELSE ""
        fp4  == SubSeq(fp \o "0000", 1, 4)
    IN  AtoiDigits(ip, 0) * 10000 + AtoiDigits(fp4, 0)

\* variant: a radius above 100 falls back to 1
ClampWindow_FallBack(w) == IF w < 1 THEN 1 ELSE IF w > 100 THEN 1 ELSE w

\* -w N: clamp to [1, 100]
\* if (window < 1) window = 1; if (window > 100) window = 100;
ClampWindow(w) == IF w < 1 THEN 1 ELSE IF w > 100 THEN 100 ELSE w

ArgsStart ==
    [argi |-> 1, window |-> DEFAULT_WINDOW, baseline |-> "0.03",
     quiet |-> 0, debug |-> 0, sections |-> 0,
     void_file |-> NULL, pers_file |-> NULL, result |-> "parse"]

\* the option loop of main; argv[k] of the program is argv[k + 1] here,
\* argc = Len(argv)
RECURSIVE ParseOptions(_, _)
ParseOptions(argv, st) ==
    LET argc    == Len(argv)
        arg     == argv[st.argi + 1]
        hasNext == st.argi + 1 < argc
        next    == argv[st.argi + 2]
    IN  IF ~(st.argi < argc /\ CharAt(arg, 1) = "-")
        THEN [st EXCEPT !.result = "run"]
        ELSE IF arg = "-w" /\ hasNext
        THEN ParseOptions(argv, [st EXCEPT !.window = ClampWindow(atoi(next)), !.argi = @ + 2])
        ELSE IF arg = "-v" /\ hasNext
        THEN ParseOptions(argv, [st EXCEPT !.void_file = next, !.argi = @ + 2])
        ELSE IF arg = "-p" /\ hasNext
        THEN ParseOptions(argv, [st EXCEPT !.pers_file = next, !.argi = @ + 2])
        ELSE IF arg = "-b" /\ hasNext
        THEN ParseOptions(argv, [st EXCEPT !.baseline = next, !.argi = @ + 2])
        ELSE IF arg = "-q"
        THEN ParseOptions(argv, [st EXCEPT !.quiet = 1, !.argi = @ + 1])
        ELSE IF arg = "-d"
        THEN ParseOptions(argv, [st EXCEPT !.debug = 1, !.argi = @ + 1])
        ELSE IF arg = "-s"
        THEN ParseOptions(argv, [st EXCEPT !.sections = 1, !.argi = @ + 1])
        ELSE IF arg = "-h" \/ arg = "--help"
        THEN [st EXCEPT !.result = "help"]
        ELSE IF arg = "--"
        THEN [st EXCEPT !.argi = @ + 1, !.result = "run"]
        ELSE [st EXCEPT !.result = "unknown"]

\* gcd of two naturals, not both 0
RECURSIVE GCD(_, _)
GCD(a, b) == IF b = 0 THEN a ELSE GCD(b, a % b)

\* the value of sqrt of a negative number and of every expression it
\* enters: no comparison with it is true
NaN == [num |-> 0, var |-> -1]

\* variant: the standard error is not tested before the division
z_test_NoGuard(observed, total, p0) ==
    LET g == GCD(p0, 10000)
        a == p0 \div g
        c == 10000 \div g
    IN  IF total <= 0 THEN [num |-> 0, var |-> 1]
        ELSE IF a > c THEN NaN
        ELSE [num |-> c * observed - total * a, var |-> total * a * (c - a)]

\* z_test(observed, total, p0), p0 in units of 1/10000: the value is
\* num / sqrt(var), kept as the pair (num, var) with p0 = a / c in lowest
\* terms; 0 when total <= 0 and when the standard error is below 1e-15,
\* which for these p0 and total is the case only when p0 is 0 or 1; for
\* p0 above 1 the standard error is NaN, the test se < 1e-15 fails and the
\* quotient is NaN
z_test(observed, total, p0) ==
    LET g == GCD(p0, 10000)
        a == p0 \div g
        c == 10000 \div g
    IN  IF total <= 0 THEN [num |-> 0, var |-> 1]
        ELSE IF p0 = 0 \/ p0 = 10000 THEN [num |-> 0, var |-> 1]
        ELSE IF a > c THEN NaN
        ELSE [num |-> c * observed - total * a, var |-> total * a * (c - a)]

\* a message on stderr: usage, perror(what), "Unknown option: what",
\* "No tokens found."
Message(kind, what) == [kind |-> kind, what |-> what]

\* the name of the k-th file operand of the command line
OperandName(k) == "file" \o ToString(k)

(* ---------------------------------------------------------------------- *)
(* State of the personality filter                                        *)
(* ---------------------------------------------------------------------- *)
VARIABLES
    pc,             \* position in main
    exit_status,    \* -1 while running, then the value returned by main
    args,           \* window, baseline, quiet, debug, sections, void_file, pers_file
    void_set, pers_set, tech_set,
    load_pos,       \* 0 before load_cluster opens its source, then the read position
    inputs,         \* the opened streams, each the string of its bytes
    fi, byte_pos, word, word_start, newline_count,
    tokens, para_id, para_start, paragraphs, n_paragraphs,
    token_file,     \* history: for each token, the index of the stream it came from
    i,              \* index of the classification loop
    hits, total_void, personality_void, residual_void, anomalous_void,
    total_personality_markers, total_technical_markers,
    scanned,        \* the indices read by the last window scan, with its centre
    pair,           \* two corpora classified side by side (SpecPositional)
    opts,           \* density analyzer: wordlist_file, quiet, baselines
    cluster,        \* density analyzer: the cluster hash set
    total_tokens, total_hits,
    cluster_hits,   \* density analyzer: the frequency table, n_cluster_hits entries
    source,         \* history: the file operands and the bytes of stdin of the run
    out,            \* what the run has written to stdout, one entry per part
    err,            \* what the run has written to stderr, one entry per message
    probe           \* a token store size and a word, and the size after its flush

ctlVars == <<pc, exit_status>>
setVars == <<void_set, pers_set, tech_set, load_pos>>
inVars  == <<inputs, fi, byte_pos, word, word_start, newline_count>>
tokVars == <<tokens, para_id, para_start, paragraphs, n_paragraphs, token_file>>
clsVars == <<i, hits, total_void, personality_void, residual_void, anomalous_void,
             total_personality_markers, total_technical_markers, scanned, pair>>
anVars  == <<opts, cluster, total_tokens, total_hits, cluster_hits>>
ioVars  == <<source, out, err>>
vars == <<pc, exit_status, args, void_set, pers_set, tech_set, load_pos,
          inputs, fi, byte_pos, word, word_start, newline_count,
          tokens, para_id, para_start, paragraphs, n_paragraphs, token_file,
          i, hits, total_void, personality_void, residual_void, anomalous_void,
          total_personality_markers, total_technical_markers, scanned, pair,
          opts, cluster, total_tokens, total_hits, cluster_hits,
          source, out, err, probe>>

n_tokens == Len(tokens)
n_hits == Len(hits)
n_cluster_hits == Len(cluster_hits)
n_inputs == Len(inputs)
wpos == Len(word)
window == args.window

\* the density analyzer before its option loop: one baseline, "default", 0.05
OptsStart ==
    [argi |-> 1, wordlist_file |-> NULL, quiet |-> 0,
     baselines_lbl |-> <<"default">>, baselines_val |-> <<500>>,
     result |-> "parse", argv |-> << >>]

\* the same with the argument vector main is called with
OptsFor(argv) == [OptsStart EXCEPT !.argv = argv]

ZeroParagraph ==
    [start_token |-> 0, end_token |-> 0, void_hits |-> 0, personality_hits |-> 0,
     technical_hits |-> 0, personality_void |-> 0, residual_void |-> 0,
     total_tokens |-> 0]

NoScan == [centre |-> -1, lo |-> 0, hi |-> -1, indices |-> {}, lookups |-> 0]

\* no stream has been opened yet
NoSource == [files |-> << >>, stdin |-> NULL]

NoProbe == [n_tokens |-> 0, word |-> "", stored |-> 0]

NoPair == [a |-> << >>, b |-> << >>, w |-> 0, k |-> 0, hits_a |-> << >>, hits_b |-> << >>]

Init ==
    /\ pc = "args"
    /\ exit_status = -1
    /\ args = ArgsStart
    /\ void_set = hs_init /\ pers_set = hs_init /\ tech_set = hs_init
    /\ load_pos = 0
    /\ inputs = << >>
    /\ fi = 0 /\ byte_pos = 0 /\ word = "" /\ word_start = 0 /\ newline_count = 0
    /\ tokens = << >> /\ token_file = << >>
    /\ para_id = 0 /\ para_start = 0
    /\ paragraphs = (0 :> ZeroParagraph)
    /\ n_paragraphs = 0
    /\ i = 0
    /\ hits = << >>
    /\ total_void = 0 /\ personality_void = 0 /\ residual_void = 0
    /\ anomalous_void = 0
    /\ total_personality_markers = 0 /\ total_technical_markers = 0
    /\ scanned = NoScan
    /\ pair = NoPair
    /\ opts = OptsStart
    /\ cluster = hs_init
    /\ total_tokens = 0 /\ total_hits = 0
    /\ cluster_hits = << >>
    /\ source = NoSource /\ out = << >> /\ err = << >>
    /\ probe = NoProbe

(* ---------------------------------------------------------------------- *)
(* main: option parsing                                                   *)
(* ---------------------------------------------------------------------- *)
\* variant: an option that is not known ends the run with status 0
ExitStatusOf_UnknownZero(result) ==
    CASE result = "run" -> -1
      [] result = "help" -> 0
      [] result = "unknown" -> 0

\* the status main returns from the option loop: 0 after the usage text
\* was asked for, 1 after an option it does not know; -1 stands for a
\* run that goes on
ExitStatusOf(result) ==
    CASE result = "run" -> -1
      [] result = "help" -> 0
      [] result = "unknown" -> 1

ParseArgs(Argvs) ==
    /\ pc = "args"
    /\ \E argv \in Argvs :
         LET st == ParseOptions(argv, ArgsStart)
         IN  /\ args' = st
             /\ pc' = IF st.result = "run" THEN "load_void" ELSE "exit"
             /\ exit_status' = ExitStatusOf(st.result)
             /\ err' = CASE st.result = "run" -> err
                         [] st.result = "help" -> Append(err, Message("usage", argv[1]))
                         [] st.result = "unknown" ->
                              err \o <<Message("unknown_option", argv[st.argi + 1]),
                                       Message("usage", argv[1])>>
    /\ UNCHANGED <<setVars, inVars, tokVars, clsVars>>
    /\ UNCHANGED anVars
    /\ UNCHANGED <<source, out>>
    /\ UNCHANGED probe

(* ---------------------------------------------------------------------- *)
(* main: load_cluster for the three sets, one source line per step        *)
(* ---------------------------------------------------------------------- *)
LoadPcs == {"load_void", "load_pers", "load_tech"}

LoadFile ==
    CASE pc = "load_void" -> args.void_file
      [] pc = "load_pers" -> args.pers_file
      [] pc = "load_tech" -> NULL

LoadDefaults ==
    CASE pc = "load_void" -> VOID_CLUSTER
      [] pc = "load_pers" -> PERSONALITY_MARKERS
      [] pc = "load_tech" -> TECHNICAL_MARKERS

LoadSet ==
    CASE pc = "load_void" -> void_set
      [] pc = "load_pers" -> pers_set
      [] pc = "load_tech" -> tech_set

SetLoadSet(hs) ==
    /\ void_set' = IF pc = "load_void" THEN hs ELSE void_set
    /\ pers_set' = IF pc = "load_pers" THEN hs ELSE pers_set
    /\ tech_set' = IF pc = "load_tech" THEN hs ELSE tech_set

\* hs_init, and fopen of a named list (exit(1) when it fails)
LoadBegin ==
    /\ pc \in LoadPcs /\ load_pos = 0
    /\ SetLoadSet(hs_init)
    /\ IF LoadFile # NULL /\ ~FileReadable(LoadFile)
       THEN /\ pc' = "exit" /\ exit_status' = 1 /\ load_pos' = 0
            /\ err' = Append(err, Message("perror", LoadFile))
       ELSE load_pos' = 1 /\ UNCHANGED <<ctlVars, err>>
    /\ UNCHANGED <<args, inVars, tokVars, clsVars>>
    /\ UNCHANGED anVars
    /\ UNCHANGED <<source, out>>
    /\ UNCHANGED probe

LoadFileLine ==
    /\ pc \in LoadPcs /\ load_pos >= 1
    /\ LoadFile # NULL
    /\ load_pos <= Len(FileContent(LoadFile))
    /\ SetLoadSet(LoadLine(LoadSet, FileContent(LoadFile), load_pos))
    /\ load_pos' = FgetsEnd(FileContent(LoadFile), load_pos) + 1
    /\ UNCHANGED <<ctlVars, args, inVars, tokVars, clsVars>>
    /\ UNCHANGED anVars
    /\ UNCHANGED ioVars
    /\ UNCHANGED probe

LoadDefaultWord ==
    /\ pc \in LoadPcs /\ load_pos >= 1
    /\ LoadFile = NULL
    /\ load_pos <= Len(LoadDefaults)
    /\ SetLoadSet(LoadDefault(LoadSet, LoadDefaults, load_pos))
    /\ load_pos' = load_pos + 1
    /\ UNCHANGED <<ctlVars, args, inVars, tokVars, clsVars>>
    /\ UNCHANGED anVars
    /\ UNCHANGED ioVars
    /\ UNCHANGED probe

LoadEnd ==
    /\ pc \in LoadPcs /\ load_pos >= 1
    /\ load_pos > (IF LoadFile = NULL THEN Len(LoadDefaults) ELSE Len(FileContent(LoadFile)))
    /\ pc' = CASE pc = "load_void" -> "load_pers"
               [] pc = "load_pers" -> "load_tech"
               [] pc = "load_tech" -> "open"
    /\ load_pos' = 0
    /\ UNCHANGED <<exit_status, args, void_set, pers_set, tech_set, inVars, tokVars, clsVars>>
    /\ UNCHANGED anVars
    /\ UNCHANGED ioVars
    /\ UNCHANGED probe

(* ---------------------------------------------------------------------- *)
(* main: open the inputs, tokenize                                        *)
(* ---------------------------------------------------------------------- *)
\* A source names the file operands left on the command line, each the
\* string of its bytes or NULL when fopen fails, and the bytes of stdin.
\* variant: when no operand can be opened, the run reads stdin
OpenedInputs_StdinFallback(src) ==
    LET Readable(f) == f # NULL
        opened == SelectSeq(src.files, Readable)
    IN  IF opened = << >>
        THEN <<src.stdin>>
        ELSE SubSeq(opened, 1, Min(Len(opened), MAX_INPUTS))

OpenedInputs(src) ==
    IF src.files = << >>
    THEN <<src.stdin>>
    ELSE LET Readable(f) == f # NULL
             opened == SelectSeq(src.files, Readable)
         IN  SubSeq(opened, 1, Min(Len(opened), MAX_INPUTS))

\* the perror messages of the fopen loop: one for each operand that cannot
\* be opened and is reached before MAX_INPUTS streams are open
OpenErrors(src) ==
    LET OpenedBefore(k) == Cardinality({h \in 1..(k - 1) : src.files[h] # NULL})
        failed == {k \in 1..Len(src.files) :
                      src.files[k] = NULL /\ OpenedBefore(k) < MAX_INPUTS}
        Upto(k) == Cardinality({h \in failed : h <= k})
    IN  [j \in 1..Cardinality(failed) |->
            Message("perror", OperandName(CHOOSE k \in failed : Upto(k) = j))]

OpenInputs(Sources) ==
    /\ pc = "open"
    /\ \E src \in Sources :
         /\ inputs' = OpenedInputs(src)
         /\ source' = src
         /\ err' = err \o OpenErrors(src)
    /\ tokens' = << >> /\ token_file' = << >>
    /\ para_id' = 0 /\ newline_count' = 0 /\ para_start' = 0
    /\ n_paragraphs' = 0
    /\ paragraphs' = [paragraphs EXCEPT ![0] = ZeroParagraph]
    /\ fi' = 0 /\ byte_pos' = 0 /\ word' = "" /\ word_start' = 0
    /\ pc' = "read"
    /\ UNCHANGED <<exit_status, args, setVars, clsVars>>
    /\ UNCHANGED anVars
    /\ UNCHANGED out
    /\ UNCHANGED probe

\* the token appended when a finished word is accepted
NewToken(w, pid, start) ==
    [word |-> StrNCpy(w),
     is_void |-> hs_contains(void_set, w),
     is_personality |-> hs_contains(pers_set, w),
     para_id |-> pid,
     byte_offset |-> start]

\* the flush of the word buffer: tokens after the buffer w is finished
Flush(toks, w, pid, start) ==
    LET lw == lowercase(w)
    IN  IF Len(w) >= 2 /\ isalpha(CharAt(lw, 1)) /\ Len(toks) < MAX_TOKENS
        THEN Append(toks, NewToken(lw, pid, start))
        ELSE toks

\* variant: a blank line closes the paragraph even when it holds no token
ParagraphBreak_AnyBlankLine(c) ==
    c = "\n" /\ newline_count + 1 >= 2

\* paragraph detection at a '\n' that completes a blank line after a token
ParagraphBreak(c) ==
    c = "\n" /\ newline_count + 1 >= 2 /\ n_tokens > para_start

\* if (n_paragraphs < MAX_PARAGRAPHS - 1) n_paragraphs++: the section index
\* after a break
NextSection(np) == IF np < MAX_PARAGRAPHS - 1 THEN np + 1 ELSE np

\* if (wpos < MAX_WORD_LEN - 1) word[wpos++] = c: the word buffer after a
\* word character
PutChar(w, c) == IF Len(w) < MAX_WORD_LEN - 1 THEN w \o c ELSE w

ClosedParagraphs ==
    LET closed == [paragraphs EXCEPT
                     ![n_paragraphs].end_token = n_tokens,
                     ![n_paragraphs].total_tokens = n_tokens - paragraphs[n_paragraphs].start_token]
    IN  IF n_paragraphs < MAX_PARAGRAPHS - 1
        THEN ((n_paragraphs + 1) :> [ZeroParagraph EXCEPT !.start_token = n_tokens]) @@ closed
        ELSE closed

\* one iteration of the fgetc loop
ReadChar ==
    /\ pc = "read" /\ fi < n_inputs
    /\ byte_pos < Len(inputs[fi + 1])
    /\ LET c   == CharAt(inputs[fi + 1], byte_pos + 1)
           brk == ParagraphBreak(c)
           pid == IF brk THEN para_id + 1 ELSE para_id
       IN  /\ byte_pos' = byte_pos + 1
           /\ IF brk
              THEN /\ paragraphs' = ClosedParagraphs
                   /\ n_paragraphs' = NextSection(n_paragraphs)
                   /\ para_start' = n_tokens
              ELSE UNCHANGED <<paragraphs, n_paragraphs, para_start>>
           /\ para_id' = pid
           /\ newline_count' = IF c = "\n" THEN (IF brk THEN 0 ELSE newline_count + 1)
                               ELSE IF c # "\r" THEN 0 ELSE newline_count
           /\ IF is_word_char(c)
              THEN /\ word_start' = IF wpos = 0 THEN byte_pos + 1 ELSE word_start
                   /\ word' = PutChar(word, c)
                   /\ UNCHANGED tokens
              ELSE /\ tokens' = IF wpos > 0 THEN Flush(tokens, word, pid, word_start) ELSE tokens
                   /\ word' = ""
                   /\ UNCHANGED word_start
    /\ token_file' = IF Len(tokens') > Len(tokens) THEN Append(token_file, fi) ELSE token_file
    /\ UNCHANGED <<ctlVars, args, setVars, inputs, fi, clsVars>>
    /\ UNCHANGED anVars
    /\ UNCHANGED ioVars
    /\ UNCHANGED probe

\* variant: the word pending at the end of a stream is dropped
FlushLast_Never(toks, w, pid, start) == toks

\* the flush of the word pending when a stream ends
FlushLast(toks, w, pid, start) ==
    IF Len(w) > 0 THEN Flush(toks, w, pid, start) ELSE toks

\* EOF on the current stream: flush the last word, go to the next stream
EndOfFile ==
    /\ pc = "read" /\ fi < n_inputs
    /\ byte_pos = Len(inputs[fi + 1])
    /\ tokens' = FlushLast(tokens, word, para_id, word_start)
    /\ token_file' = IF Len(tokens') > Len(tokens) THEN Append(token_file, fi) ELSE token_file
    /\ fi' = fi + 1
    /\ word' = "" /\ byte_pos' = 0 /\ word_start' = 0
    /\ UNCHANGED <<ctlVars, args, setVars, inputs, newline_count,
                   para_id, para_start, paragraphs, n_paragraphs, clsVars>>
    /\ UNCHANGED anVars
    /\ UNCHANGED ioVars
    /\ UNCHANGED probe

\* variant: the test never finds the corpus empty
EmptyCorpus_Never(n) == n < 0

\* if (n_tokens == 0), and if (total_tokens == 0) in the density analyzer
EmptyCorpus(n) == n = 0

\* close the final paragraph; an empty corpus ends the run with status 1
CloseFinal ==
    /\ pc = "read" /\ fi = n_inputs
    /\ LET total == n_tokens - paragraphs[n_paragraphs].start_token
       IN  /\ paragraphs' = [paragraphs EXCEPT ![n_paragraphs].end_token = n_tokens,
                                               ![n_paragraphs].total_tokens = total]
           /\ n_paragraphs' = IF total > 0 THEN n_paragraphs + 1 ELSE n_paragraphs
    /\ IF EmptyCorpus(n_tokens)
       THEN /\ pc' = "exit" /\ exit_status' = 1
            /\ err' = Append(err, Message("no_tokens", "No tokens found."))
       ELSE pc' = "classify" /\ UNCHANGED <<exit_status, err>>
    /\ i' = 0 /\ hits' = << >>
    /\ total_void' = 0 /\ personality_void' = 0 /\ residual_void' = 0
    /\ anomalous_void' = 0
    /\ total_personality_markers' = 0 /\ total_technical_markers' = 0
    /\ UNCHANGED <<args, setVars, inVars, tokens, token_file, para_id, para_start,
                   scanned, pair>>
    /\ UNCHANGED anVars
    /\ UNCHANGED <<source, out>>
    /\ UNCHANGED probe

(* ---------------------------------------------------------------------- *)
(* main: classify the void hits by co-occurrence                          *)
(* ---------------------------------------------------------------------- *)
\* tokens[k] of the program is toks[k + 1] here
Tok(toks, k) == toks[k + 1]

\* variant: the lower bound is clamped to 1
WindowLo_ClampToOne(k, w) == IF k - w < 1 THEN 1 ELSE k - w

WindowLo(k, w) == IF k - w < 0 THEN 0 ELSE k - w

\* variant: the scan runs to the end of the corpus whatever the radius
WindowHi_CorpusEnd(k, w, n) == n - 1

WindowHi(k, w, n) == IF k + w >= n THEN n - 1 ELSE k + w

\* variant: the scan does not skip the hit token
ScanIndices_WithCentre(lo, hi, k) == lo..hi

\* the values of j for which the body of the scan loop reads tokens[j]
ScanIndices(lo, hi, k) == {j \in lo..hi : j # k}

\* the calls of hs_contains the scan loop makes: one on tech_set for each
\* neighbour it reads, none for the personality flag, which is stored on
\* the token
ScanLookups(idx) == Cardinality(idx)

\* what the scan around token k reads and looks up
ScanOf(k, w, n) ==
    LET idx == ScanIndices(WindowLo(k, w), WindowHi(k, w, n), k)
    IN  [centre |-> k,
         lo |-> WindowLo(k, w),
         hi |-> WindowHi(k, w, n),
         indices |-> idx,
         lookups |-> ScanLookups(idx)]

PersCount(toks, idx) ==
    Cardinality({j \in idx : Tok(toks, j).is_personality = 1})

\* variant: the scan tests the cluster flag of the neighbour
TechCount_ClusterFlag(toks, tech, idx) ==
    Cardinality({j \in idx : Tok(toks, j).is_void = 1})

TechCount(toks, tech, idx) ==
    Cardinality({j \in idx : hs_contains(tech, Tok(toks, j).word) = 1})

\* variant: the technical test is made first
Classify_TechFirst(pers_count, tech_count) ==
    IF tech_count > 0 THEN "A"
    ELSE IF pers_count > 0 THEN "P"
    ELSE "R"

Classify(pers_count, tech_count) ==
    IF pers_count > 0 THEN "P"
    ELSE IF tech_count > 0 THEN "A"
    ELSE "R"

\* the hit computed for the cluster-term token k
HitOf(toks, tech, k, w) ==
    LET idx == ScanIndices(WindowLo(k, w), WindowHi(k, w, Len(toks)), k)
        pc_ == PersCount(toks, idx)
        tc  == TechCount(toks, tech, idx)
    IN  [token_idx |-> k,
         has_personality |-> IF pc_ > 0 THEN 1 ELSE 0,
         has_technical |-> IF tc > 0 THEN 1 ELSE 0,
         personality_count |-> pc_,
         technical_count |-> tc,
         classification |-> Classify(pc_, tc)]

\* variant: an Anomalous hit is not counted as non-personality
Tally_AnomalousApart(label) ==
    [personality_void |-> IF label = "P" THEN 1 ELSE 0,
     residual_void |-> IF label = "R" THEN 1 ELSE 0,
     anomalous_void |-> IF label = "A" THEN 1 ELSE 0]

\* the counters a hit with the given label increments
Tally(label) ==
    [personality_void |-> IF label = "P" THEN 1 ELSE 0,
     residual_void |-> IF label = "P" THEN 0 ELSE 1,
     anomalous_void |-> IF label = "A" THEN 1 ELSE 0]

\* variant: the first token of a paragraph is left out of its range
InParagraph_AfterStart(paras, p, k) ==
    k > paras[p].start_token /\ k < paras[p].end_token

InParagraph(paras, p, k) == k >= paras[p].start_token /\ k < paras[p].end_token

\* the paragraph-stats update for a hit at token k with the given label
ParagraphHit(paras, np, k, label) ==
    IF \E p \in 0..(np - 1) : InParagraph(paras, p, k)
    THEN LET p == CHOOSE q \in 0..(np - 1) :
                      InParagraph(paras, q, k)
                      /\ \A r \in 0..(q - 1) : ~InParagraph(paras, r, k)
         IN  [paras EXCEPT
                ![p].void_hits = @ + 1,
                ![p].personality_void = IF label = "P" THEN @ + 1 ELSE @,
                ![p].residual_void = IF label = "P" THEN @ ELSE @ + 1]
    ELSE paras

\* variant: a full log keeps the latest hit in its last entry
LogHit_KeepLatest(log, hit) ==
    IF Len(log) < MAX_HIT_LOG THEN Append(log, hit)
    ELSE [log EXCEPT ![MAX_HIT_LOG] = hit]

\* if (n_hits < MAX_HIT_LOG) { hits[n_hits] = ...; n_hits++; }
LogHit(log, hit) ==
    IF Len(log) < MAX_HIT_LOG THEN Append(log, hit) ELSE log

\* the counters, the hit log and the section table the classification
\* loop works on
Counters ==
    [total_void |-> total_void, personality_void |-> personality_void,
     residual_void |-> residual_void, anomalous_void |-> anomalous_void,
     hits |-> hits, paragraphs |-> paragraphs]

\* variant: a hit that finds the log full is not counted
HitStep_LoggedOnly(c, np, k, hit) ==
    LET label == hit.classification
    IN  IF Len(c.hits) < MAX_HIT_LOG
        THEN [total_void |-> c.total_void + 1,
              personality_void |-> c.personality_void + Tally(label).personality_void,
              residual_void |-> c.residual_void + Tally(label).residual_void,
              anomalous_void |-> c.anomalous_void + Tally(label).anomalous_void,
              hits |-> LogHit(c.hits, hit),
              paragraphs |-> ParagraphHit(c.paragraphs, np, k, label)]
        ELSE c

\* the body of the classification loop for the cluster-term token k, once
\* its window is scanned: count the hit, count its label, log it while the
\* log has room, count it in its section
HitStep(c, np, k, hit) ==
    LET label == hit.classification
    IN  [total_void |-> c.total_void + 1,
         personality_void |-> c.personality_void + Tally(label).personality_void,
         residual_void |-> c.residual_void + Tally(label).residual_void,
         anomalous_void |-> c.anomalous_void + Tally(label).anomalous_void,
         hits |-> LogHit(c.hits, hit),
         paragraphs |-> ParagraphHit(c.paragraphs, np, k, label)]

\* variant: a hit with a personality marker in its window is flagged as a
\* marker itself
ClassifyToken_FlagsOnToken ==
    /\ pc = "classify" /\ i < n_tokens
    /\ total_personality_markers' =
          total_personality_markers + (IF Tok(tokens, i).is_personality = 1 THEN 1 ELSE 0)
    /\ total_technical_markers' =
          total_technical_markers + hs_contains(tech_set, Tok(tokens, i).word)
    /\ IF Tok(tokens, i).is_void = 0
       THEN UNCHANGED <<hits, total_void, personality_void, residual_void,
                        anomalous_void, scanned, paragraphs>>
       ELSE LET after == HitStep(Counters, n_paragraphs, i,
                                 HitOf(tokens, tech_set, i, window))
            IN  /\ total_void' = after.total_void
                /\ scanned' = ScanOf(i, window, n_tokens)
                /\ personality_void' = after.personality_void
                /\ residual_void' = after.residual_void
                /\ anomalous_void' = after.anomalous_void
                /\ hits' = after.hits
                /\ paragraphs' = after.paragraphs
    /\ i' = i + 1
    /\ tokens' = IF Tok(tokens, i).is_void = 0 THEN tokens
                 ELSE [tokens EXCEPT ![i + 1].is_personality =
                          IF HitOf(tokens, tech_set, i, window).has_personality = 1
                          THEN 1 ELSE @]
    /\ UNCHANGED <<ctlVars, args, setVars, inVars, token_file, para_id,
                   para_start, n_paragraphs, pair>>
    /\ UNCHANGED anVars
    /\ UNCHANGED ioVars
    /\ UNCHANGED probe

\* one iteration of the classification loop
ClassifyToken ==
    /\ pc = "classify" /\ i < n_tokens
    /\ total_personality_markers' =
          total_personality_markers + (IF Tok(tokens, i).is_personality = 1 THEN 1 ELSE 0)
    /\ total_technical_markers' =
          total_technical_markers + hs_contains(tech_set, Tok(tokens, i).word)
    /\ IF Tok(tokens, i).is_void = 0
       THEN UNCHANGED <<hits, total_void, personality_void, residual_void,
                        anomalous_void, scanned, paragraphs>>
       ELSE LET after == HitStep(Counters, n_paragraphs, i,
                                 HitOf(tokens, tech_set, i, window))
            IN  /\ total_void' = after.total_void
                /\ scanned' = ScanOf(i, window, n_tokens)
                /\ personality_void' = after.personality_void
                /\ residual_void' = after.residual_void
                /\ anomalous_void' = after.anomalous_void
                /\ hits' = after.hits
                /\ paragraphs' = after.paragraphs
    /\ i' = i + 1
    /\ UNCHANGED <<ctlVars, args, setVars, inVars, tokens, token_file, para_id,
                   para_start, n_paragraphs, pair>>
    /\ UNCHANGED anVars
    /\ UNCHANGED ioVars
    /\ UNCHANGED probe

\* the classification loop is over; the second pass starts
ClassifyEnd ==
    /\ pc = "classify" /\ i = n_tokens
    /\ pc' = "markers"
    /\ i' = 0
    /\ UNCHANGED <<exit_status, args, setVars, inVars, tokVars,
                   hits, total_void, personality_void, residual_void, anomalous_void,
                   total_personality_markers, total_technical_markers, scanned, pair>>
    /\ UNCHANGED anVars
    /\ UNCHANGED ioVars
    /\ UNCHANGED probe

\* the paragraph-marker update for token k
ParagraphMarkers(paras, np, k) ==
    IF \E p \in 0..(np - 1) : InParagraph(paras, p, k)
    THEN LET p == CHOOSE q \in 0..(np - 1) :
                      InParagraph(paras, q, k)
                      /\ \A r \in 0..(q - 1) : ~InParagraph(paras, r, k)
         IN  [paras EXCEPT
                ![p].personality_hits =
                    @ + (IF Tok(tokens, k).is_personality = 1 THEN 1 ELSE 0),
                ![p].technical_hits = @ + hs_contains(tech_set, Tok(tokens, k).word)]
    ELSE paras

\* one iteration of the second pass: personality and technical markers
\* per paragraph
CountMarkers ==
    /\ pc = "markers" /\ i < n_tokens
    /\ paragraphs' = ParagraphMarkers(paragraphs, n_paragraphs, i)
    /\ i' = i + 1
    /\ UNCHANGED <<ctlVars, args, setVars, inVars, tokens, token_file, para_id,
                   para_start, n_paragraphs,
                   hits, total_void, personality_void, residual_void, anomalous_void,
                   total_personality_markers, total_technical_markers, scanned, pair>>
    /\ UNCHANGED anVars
    /\ UNCHANGED ioVars
    /\ UNCHANGED probe

CountMarkersEnd ==
    /\ pc = "markers" /\ i = n_tokens
    /\ pc' = "output"
    /\ UNCHANGED <<exit_status, args, setVars, inVars, tokVars, clsVars>>
    /\ UNCHANGED anVars
    /\ UNCHANGED ioVars
    /\ UNCHANGED probe

\* the statistics against the baseline; baseline = atof of the -b argument,
\* 0.03 without one
z_raw   == z_test(total_void, n_tokens, atof(args.baseline))
\* variant: the residual test leaves the hits in technical context out
z_resid_ResidualOnly == z_test(residual_void - anomalous_void, n_tokens, atof(args.baseline))

z_resid == z_test(residual_void, n_tokens, atof(args.baseline))
z_anom  == z_test(anomalous_void, n_tokens, atof(args.baseline))

\* variant: the third field is the count of the Residual label alone, as
\* in the breakdown table of the full report
QuietRecord_ReportColumns ==
    [kind |-> "record",
     fields |-> <<total_void, personality_void, residual_void - anomalous_void,
                  anomalous_void, n_tokens, z_raw, z_resid, z_anom>>]

\* quiet mode: the arguments of the one printf, in the order of its format
QuietRecord ==
    [kind |-> "record",
     fields |-> <<total_void, personality_void, residual_void, anomalous_void,
                  n_tokens, z_raw, z_resid, z_anom>>]

\* the full report: the numbers of its header, breakdown and test tables
\* (the p-values, effect sizes and the interpretation drawn from them are
\* left out)
Report ==
    [kind |-> "report",
     n_tokens |-> n_tokens, n_paragraphs |-> n_paragraphs,
     total_personality_markers |-> total_personality_markers,
     total_technical_markers |-> total_technical_markers,
     window |-> window,
     total_void |-> total_void, personality_void |-> personality_void,
     residual |-> residual_void - anomalous_void,
     anomalous_void |-> anomalous_void,
     z_raw |-> z_raw, z_resid |-> z_resid, z_anom |-> z_anom]

\* -d: the header with n_hits, the first 100 logged hits, and the count of
\* the logged hits not shown
DebugListing ==
    IF args.debug = 1 /\ n_hits > 0
    THEN <<[kind |-> "debug",
            n_hits |-> n_hits,
            shown |-> SubSeq(hits, 1, Min(n_hits, 100)),
            more |-> IF n_hits > 100 THEN n_hits - 100 ELSE 0]>>
    ELSE << >>

\* -s: one row for each of the first 200 sections that holds a token
SectionTable ==
    IF args.sections = 1 /\ n_paragraphs > 0
    THEN <<[kind |-> "sections",
            n_paragraphs |-> n_paragraphs,
            rows |-> [p \in {q \in 0..(Min(n_paragraphs, 200) - 1) :
                                paragraphs[q].total_tokens # 0} |-> paragraphs[p]]]>>
    ELSE << >>

\* quiet mode prints the record and returns 0; otherwise the report, the
\* debug listing and the section table are written and main returns 0
\* variant: the debug listing and the section table follow the record
Outputs_ListingsAlways ==
    (IF args.quiet = 1 THEN <<QuietRecord>> ELSE <<Report>>) \o DebugListing \o SectionTable

\* what main writes to stdout: the record and nothing else in quiet mode
\* (return 0 after the printf), else the report, the debug listing and the
\* section table
Outputs ==
    IF args.quiet = 1
    THEN <<QuietRecord>>
    ELSE <<Report>> \o DebugListing \o SectionTable

Output ==
    /\ pc = "output"
    /\ pc' = "done" /\ exit_status' = 0
    /\ out' = out \o Outputs
    /\ UNCHANGED <<args, setVars, inVars, tokVars, clsVars>>
    /\ UNCHANGED anVars
    /\ UNCHANGED <<source, err>>
    /\ UNCHANGED probe

(* ---------------------------------------------------------------------- *)
(* The density analyzer (void-cluster-analyzer.c): command line           *)
(* ---------------------------------------------------------------------- *)
MAX_BASELINES == 16
MAX_LABEL_LEN == 31

\* -B LABEL:FLOAT: cut at the first ':', when there is one and room is left
\* variant: an argument without ':' is stored as a label with the value
\* atof gives for it
AddBaseline_KeepMalformed(st, arg) ==
    LET colon == IndexIn(arg, ":")
        label == IF colon > 0 THEN SubSeq(arg, 1, colon - 1) ELSE arg
    IN  IF Len(st.baselines_val) < MAX_BASELINES
        THEN [st EXCEPT
                !.baselines_lbl = Append(@, SubSeq(label, 1, Min(Len(label), MAX_LABEL_LEN))),
                !.baselines_val = Append(@, atof(SubSeq(arg, colon + 1, Len(arg))))]
        ELSE st

AddBaseline(st, arg) ==
    LET colon == IndexIn(arg, ":")
        label == SubSeq(arg, 1, colon - 1)
    IN  IF colon > 0 /\ Len(st.baselines_val) < MAX_BASELINES
        THEN [st EXCEPT
                !.baselines_lbl = Append(@, SubSeq(label, 1, Min(Len(label), MAX_LABEL_LEN))),
                !.baselines_val = Append(@, atof(SubSeq(arg, colon + 1, Len(arg))))]
        ELSE st

\* the option loop of main; argv[k] of the program is argv[k + 1] here
RECURSIVE AnParseOptions(_, _)
AnParseOptions(argv, st) ==
    LET argc    == Len(argv)
        arg     == argv[st.argi + 1]
        hasNext == st.argi + 1 < argc
        next    == argv[st.argi + 2]
    IN  IF ~(st.argi < argc /\ CharAt(arg, 1) = "-")
        THEN [st EXCEPT !.result = "run"]
        ELSE IF arg = "-w" /\ hasNext
        THEN AnParseOptions(argv, [st EXCEPT !.wordlist_file = next, !.argi = @ + 2])
        ELSE IF arg = "-b" /\ hasNext
        THEN AnParseOptions(argv, [st EXCEPT !.baselines_val[1] = atof(next), !.argi = @ + 2])
        ELSE IF arg = "-B" /\ hasNext
        THEN AnParseOptions(argv, [AddBaseline(st, next) EXCEPT !.argi = @ + 2])
        ELSE IF arg = "-q"
        THEN AnParseOptions(argv, [st EXCEPT !.quiet = 1, !.argi = @ + 1])
        ELSE IF arg = "-h" \/ arg = "--help"
        THEN [st EXCEPT !.result = "help"]
        ELSE IF arg = "--"
        THEN [st EXCEPT !.argi = @ + 1, !.result = "run"]
        ELSE [st EXCEPT !.result = "unknown"]

\* the variables of the personality filter the analyzer does not have
filterVars == <<args, void_set, pers_set, tech_set, word_start, newline_count,
                tokVars, clsVars>>

AnParseArgs(AnArgvs) ==
    /\ pc = "an_args"
    /\ \E argv \in AnArgvs :
         LET st == AnParseOptions(argv, OptsFor(argv))
         IN  /\ opts' = st
             /\ pc' = IF st.result = "run" THEN "an_load" ELSE "exit"
             /\ exit_status' = ExitStatusOf(st.result)
             /\ err' = CASE st.result = "run" -> err
                         [] st.result = "help" -> Append(err, Message("usage", argv[1]))
                         [] st.result = "unknown" ->
                              err \o <<Message("unknown_option", argv[st.argi + 1]),
                                       Message("usage", argv[1])>>
    /\ UNCHANGED <<load_pos, inputs, fi, byte_pos, word,
                   cluster, total_tokens, total_hits, cluster_hits, filterVars>>
    /\ UNCHANGED <<source, out>>
    /\ UNCHANGED probe

(* ---------------------------------------------------------------------- *)
(* The density analyzer: build the cluster hash set                       *)
(* ---------------------------------------------------------------------- *)
AnLoadBegin ==
    /\ pc = "an_load" /\ load_pos = 0
    /\ cluster' = hs_init
    /\ IF opts.wordlist_file # NULL /\ ~FileReadable(opts.wordlist_file)
       THEN /\ pc' = "exit" /\ exit_status' = 1 /\ load_pos' = 0
            /\ err' = Append(err, Message("perror", opts.wordlist_file))
       ELSE load_pos' = 1 /\ UNCHANGED <<ctlVars, err>>
    /\ UNCHANGED <<opts, inputs, fi, byte_pos, word,
                   total_tokens, total_hits, cluster_hits, filterVars>>
    /\ UNCHANGED <<source, out>>
    /\ UNCHANGED probe

AnLoadFileLine ==
    /\ pc = "an_load" /\ load_pos >= 1
    /\ opts.wordlist_file # NULL
    /\ load_pos <= Len(FileContent(opts.wordlist_file))
    /\ cluster' = LoadLine(cluster, FileContent(opts.wordlist_file), load_pos)
    /\ load_pos' = FgetsEnd(FileContent(opts.wordlist_file), load_pos) + 1
    /\ UNCHANGED <<ctlVars, opts, inputs, fi, byte_pos, word,
                   total_tokens, total_hits, cluster_hits, filterVars>>
    /\ UNCHANGED ioVars
    /\ UNCHANGED probe

AnLoadDefaultWord ==
    /\ pc = "an_load" /\ load_pos >= 1
    /\ opts.wordlist_file = NULL
    /\ load_pos <= Len(DEFAULT_CLUSTER)
    /\ cluster' = LoadDefault(cluster, DEFAULT_CLUSTER, load_pos)
    /\ load_pos' = load_pos + 1
    /\ UNCHANGED <<ctlVars, opts, inputs, fi, byte_pos, word,
                   total_tokens, total_hits, cluster_hits, filterVars>>
    /\ UNCHANGED ioVars
    /\ UNCHANGED probe

AnLoadEnd ==
    /\ pc = "an_load" /\ load_pos >= 1
    /\ load_pos > (IF opts.wordlist_file = NULL THEN Len(DEFAULT_CLUSTER)
                   ELSE Len(FileContent(opts.wordlist_file)))
    /\ pc' = "an_open"
    /\ load_pos' = 0
    /\ UNCHANGED <<exit_status, opts, cluster, inputs, fi, byte_pos, word,
                   total_tokens, total_hits, cluster_hits, filterVars>>
    /\ UNCHANGED ioVars
    /\ UNCHANGED probe

(* ---------------------------------------------------------------------- *)
(* The density analyzer: tokenize and count                               *)
(* ---------------------------------------------------------------------- *)
AnOpenInputs(AnSources) ==
    /\ pc = "an_open"
    /\ \E src \in AnSources :
         /\ inputs' = OpenedInputs(src)
         /\ source' = src
         /\ err' = err \o OpenErrors(src)
    /\ total_tokens' = 0 /\ total_hits' = 0
    /\ cluster_hits' = << >>
    /\ fi' = 0 /\ byte_pos' = 0 /\ word' = ""
    /\ pc' = "an_read"
    /\ UNCHANGED <<exit_status, opts, cluster, load_pos, filterVars>>
    /\ UNCHANGED out
    /\ UNCHANGED probe

\* variant: a new word is entered whatever the size of the table
record_hit_NoCap(table, w) ==
    IF \E k \in 1..Len(table) : table[k].word = w
    THEN LET k == CHOOSE k \in 1..Len(table) :
                      table[k].word = w /\ \A h \in 1..(k - 1) : table[h].word # w
         IN  [table EXCEPT ![k].count = @ + 1]
    ELSE Append(table, [word |-> StrNCpy(w), count |-> 1])

\* record_hit: count the word in its entry, or enter it while there is room
record_hit(table, w) ==
    IF \E k \in 1..Len(table) : table[k].word = w
    THEN LET k == CHOOSE k \in 1..Len(table) :
                      table[k].word = w /\ \A h \in 1..(k - 1) : table[h].word # w
         IN  [table EXCEPT ![k].count = @ + 1]
    ELSE IF Len(table) < MAX_WORDLIST
    THEN Append(table, [word |-> StrNCpy(w), count |-> 1])
    ELSE table

\* the counters after the word buffer w is finished
Counted(w) ==
    LET lw   == lowercase(w)
        tok  == Len(w) >= 1 /\ isalpha(CharAt(lw, 1))
        hit  == tok /\ hs_contains(cluster, lw) = 1
    IN  [total_tokens |-> IF tok THEN total_tokens + 1 ELSE total_tokens,
         total_hits   |-> IF hit THEN total_hits + 1 ELSE total_hits,
         cluster_hits |-> IF hit THEN record_hit(cluster_hits, lw) ELSE cluster_hits]

\* one iteration of the fgetc loop
AnReadChar ==
    /\ pc = "an_read" /\ fi < n_inputs
    /\ byte_pos < Len(inputs[fi + 1])
    /\ LET c == CharAt(inputs[fi + 1], byte_pos + 1)
       IN  /\ byte_pos' = byte_pos + 1
           /\ IF is_word_char(c)
              THEN /\ word' = PutChar(word, c)
                   /\ UNCHANGED <<total_tokens, total_hits, cluster_hits>>
              ELSE IF wpos > 0
              THEN /\ total_tokens' = Counted(word).total_tokens
                   /\ total_hits' = Counted(word).total_hits
                   /\ cluster_hits' = Counted(word).cluster_hits
                   /\ word' = ""
              ELSE UNCHANGED <<word, total_tokens, total_hits, cluster_hits>>
    /\ UNCHANGED <<ctlVars, opts, cluster, load_pos, inputs, fi, filterVars>>
    /\ UNCHANGED ioVars
    /\ UNCHANGED probe

\* EOF on the current stream: flush the last word, go to the next stream
AnEndOfFile ==
    /\ pc = "an_read" /\ fi < n_inputs
    /\ byte_pos = Len(inputs[fi + 1])
    /\ IF wpos > 0
       THEN /\ total_tokens' = Counted(word).total_tokens
            /\ total_hits' = Counted(word).total_hits
            /\ cluster_hits' = Counted(word).cluster_hits
       ELSE UNCHANGED <<total_tokens, total_hits, cluster_hits>>
    /\ fi' = fi + 1
    /\ word' = "" /\ byte_pos' = 0
    /\ UNCHANGED <<ctlVars, opts, cluster, load_pos, inputs, filterVars>>
    /\ UNCHANGED ioVars
    /\ UNCHANGED probe

\* qsort(cluster_hits, n_cluster_hits, sizeof(WordCount), wc_cmp): any order
\* of the entries with the counts descending
Sorted(table) ==
    LET n     == Len(table)
        perms == {p \in [1..n -> 1..n] : \A a, b \in 1..n : a # b => p[a] # p[b]}
    IN  {[k \in 1..n |-> table[p[k]]] : p \in
            {p \in perms : \A k \in 1..(n - 1) : table[p[k]].count >= table[p[k + 1]].count}}

\* quiet mode: hits, tokens, the density hits / tokens, one z per baseline
AnQuietRecord ==
    [kind |-> "record",
     fields |-> <<total_hits, total_tokens, [num |-> total_hits, den |-> total_tokens]>>
                \o [b \in 1..Len(opts.baselines_val) |->
                       z_test(total_hits, total_tokens, opts.baselines_val[b])]]

\* the full report: the totals, the first 20 rows of the sorted table, and
\* one z per baseline
AnFullReport(table) ==
    [kind |-> "report",
     total_tokens |-> total_tokens, total_hits |-> total_hits,
     n_cluster_hits |-> Len(table),
     top |-> SubSeq(table, 1, Min(Len(table), 20)),
     tests |-> [b \in 1..Len(opts.baselines_val) |->
                  z_test(total_hits, total_tokens, opts.baselines_val[b])]]

\* after the last stream: no token ends the run with status 1; quiet mode
\* prints the totals; the full report sorts the table and prints it
AnReport ==
    /\ pc = "an_read" /\ fi = n_inputs
    /\ IF EmptyCorpus(total_tokens)
       THEN /\ pc' = "exit" /\ exit_status' = 1
            /\ err' = Append(err, Message("no_tokens", "No tokens found in input."))
            /\ UNCHANGED <<cluster_hits, out>>
       ELSE /\ pc' = "an_done" /\ exit_status' = 0
            /\ IF opts.quiet = 1
               THEN UNCHANGED cluster_hits
               ELSE cluster_hits' \in Sorted(cluster_hits)
            /\ out' = Append(out, IF opts.quiet = 1 THEN AnQuietRecord
                                  ELSE AnFullReport(cluster_hits'))
            /\ UNCHANGED err
    /\ UNCHANGED <<opts, cluster, load_pos, inputs, fi, byte_pos, word,
                   total_tokens, total_hits, filterVars>>
    /\ UNCHANGED source
    /\ UNCHANGED probe

(* ---------------------------------------------------------------------- *)
(* The runs explored                                                      *)
(* ---------------------------------------------------------------------- *)
MaxChunks == 4
MaxSplitChunks == 3

\* the pieces the input texts are made of: a cluster term with a capital
\* and a blank, a personality marker, a technical marker and a line break,
\* a line break, a hyphen
Chunks == {"Void ", "lol", "api\n", "\n", "-"}

RECURSIVE Texts(_)
Texts(n) ==
    IF n = 0 THEN {""}
    ELSE LET shorter == Texts(n - 1)
         IN  shorter \cup {t \o c : t \in shorter, c \in Chunks}

Argvs ==
    { <<"prog">>,
      <<"prog", "-w", "0", "-v", "void.txt", "-p", "pers.txt">>,
      <<"prog", "-v", "missing.txt">>,
      <<"prog", "-x">> }

\* all of the text on stdin; the text cut into two file operands; one
\* operand that cannot be opened next to a readable one
StdinSources == { [files |-> << >>, stdin |-> t] : t \in Texts(MaxChunks) }

SplitSources ==
    { s \in UNION { { [files |-> <<SubSeq(t, 1, k), SubSeq(t, k + 1, Len(t))>>, stdin |-> ""] :
                        k \in 0..Len(t) } : t \in Texts(MaxSplitChunks) } :
        s.files[1] \in Texts(MaxSplitChunks) /\ s.files[2] \in Texts(MaxSplitChunks) }

UnreadableSources ==
    { [files |-> <<NULL>>, stdin |-> ""] }
    \cup { [files |-> <<NULL, t>>, stdin |-> ""] : t \in Texts(1) }
    \cup { [files |-> <<t, NULL>>, stdin |-> ""] : t \in Texts(1) }

Sources == StdinSources \cup SplitSources \cup UnreadableSources

Next ==
    \/ ParseArgs(Argvs)
    \/ LoadBegin
    \/ LoadFileLine
    \/ LoadDefaultWord
    \/ LoadEnd
    \/ OpenInputs(Sources)
    \/ ReadChar
    \/ EndOfFile
    \/ CloseFinal
    \/ ClassifyToken
    \/ ClassifyEnd
    \/ CountMarkers
    \/ CountMarkersEnd
    \/ Output

Spec == Init /\ [][Next]_vars

(* ---------------------------------------------------------------------- *)
(* The runs of the density analyzer explored                              *)
(* ---------------------------------------------------------------------- *)
AnArgvs ==
    { <<"prog">>,
      <<"prog", "-q", "-w", "void.txt", "-b", "0.03">>,
      <<"prog", "-B", "rock:0.02", "-B", "none">>,
      <<"prog", "-w", "missing.txt">>,
      <<"prog", "-h">>,
      <<"prog", "-x">> }

AnChunks == {"Void ", "void", "api\n", "a", "-"}

RECURSIVE AnTexts(_)
AnTexts(n) ==
    IF n = 0 THEN {""}
    ELSE LET shorter == AnTexts(n - 1)
         IN  shorter \cup {t \o c : t \in shorter, c \in AnChunks}

AnSources ==
    { [files |-> << >>, stdin |-> t] : t \in AnTexts(MaxChunks) }
    \cup { [files |-> <<t, NULL, u>>, stdin |-> ""] : t, u \in AnTexts(1) }

InitAnalyzer ==
    /\ pc = "an_args"
    /\ exit_status = -1
    /\ args = ArgsStart
    /\ void_set = hs_init /\ pers_set = hs_init /\ tech_set = hs_init
    /\ load_pos = 0
    /\ inputs = << >>
    /\ fi = 0 /\ byte_pos = 0 /\ word = "" /\ word_start = 0 /\ newline_count = 0
    /\ tokens = << >> /\ token_file = << >>
    /\ para_id = 0 /\ para_start = 0
    /\ paragraphs = (0 :> ZeroParagraph)
    /\ n_paragraphs = 0
    /\ i = 0
    /\ hits = << >>
    /\ total_void = 0 /\ personality_void = 0 /\ residual_void = 0
    /\ anomalous_void = 0
    /\ total_personality_markers = 0 /\ total_technical_markers = 0
    /\ scanned = NoScan
    /\ pair = NoPair
    /\ opts = OptsStart
    /\ cluster = hs_init
    /\ total_tokens = 0 /\ total_hits = 0
    /\ cluster_hits = << >>
    /\ source = NoSource /\ out = << >> /\ err = << >>
    /\ probe = NoProbe

NextAnalyzer ==
    \/ AnParseArgs(AnArgvs)
    \/ AnLoadBegin
    \/ AnLoadFileLine
    \/ AnLoadDefaultWord
    \/ AnLoadEnd
    \/ AnOpenInputs(AnSources)
    \/ AnReadChar
    \/ AnEndOfFile
    \/ AnReport

SpecAnalyzer == InitAnalyzer /\ [][NextAnalyzer]_vars

(* ---------------------------------------------------------------------- *)
(* The runs of both tools explored for what they write and how they end   *)
(* ---------------------------------------------------------------------- *)
\* n copies of u, one after the other
RECURSIVE Rep(_, _)
Rep(u, n) ==
    IF n = 0 THEN ""
    ELSE IF n = 1 THEN u
    ELSE Rep(u, n \div 2) \o Rep(u, n - (n \div 2))

\* a run of MAX_WORD_LEN letters, one more than the word buffer keeps, and
\* a short word after it
LongRunText == Rep("a", MAX_WORD_LEN) \o " Ok"

MaxToolChunks == 2

\* the chunks of the filter's runs and a one-letter word
ToolChunks == Chunks \cup {"a "}

RECURSIVE ToolTexts(_)
ToolTexts(n) ==
    IF n = 0 THEN {""}
    ELSE LET shorter == ToolTexts(n - 1)
         IN  shorter \cup {t \o c : t \in shorter, c \in ToolChunks}

\* quiet, debug and section flags in their combinations, a baseline, a
\* lexicon file; an option without its value, help, an unknown option, a
\* lexicon file that cannot be opened
ToolArgvs ==
    { <<"prog", "-q">>,
      <<"prog", "-q", "-d", "-s", "-b", "0.5">>,
      <<"prog", "-d", "-s">>,
      <<"prog", "-s", "-v", "void.txt", "--">>,
      <<"prog", "-w">>,
      <<"prog", "-q", "-b">>,
      <<"prog", "-h">>,
      <<"prog", "-q", "-x">>,
      <<"prog", "-q", "-p", "missing.txt">>,
      <<"prog", "-p", "void.txt">> }

\* text on stdin; file operands of which some or all cannot be opened,
\* with text waiting on stdin
ToolSources ==
    { [files |-> << >>, stdin |-> t] : t \in ToolTexts(MaxToolChunks) \cup {LongRunText} }
    \cup { [files |-> f, stdin |-> "Void lol"] :
              f \in {<<NULL>>, <<NULL, NULL>>}
                    \cup {<<NULL, t>> : t \in ToolTexts(1)}
                    \cup {<<t, NULL>> : t \in ToolTexts(1)}
                    \cup {<<t, NULL, u>> : t, u \in ToolTexts(1)} }

ToolAnArgvs ==
    AnArgvs \cup { <<"prog", "-w">>, <<"prog", "-q", "-b">>,
                   <<"prog", "-B", "none", "-q", "-B", "x:0.2">>,
                   <<"prog", "-B", "none", "-x">> }

ToolAnSources ==
    AnSources
    \cup { [files |-> f, stdin |-> "void"] : f \in {<<NULL>>, <<NULL, NULL>>} }
    \cup { [files |-> << >>, stdin |-> t] : t \in {"a-b 'c d", "I'm a-", "-a", "--"} }

InitTools == Init \/ InitAnalyzer

NextTools ==
    \/ ParseArgs(ToolArgvs)
    \/ LoadBegin
    \/ LoadFileLine
    \/ LoadDefaultWord
    \/ LoadEnd
    \/ OpenInputs(ToolSources)
    \/ ReadChar
    \/ EndOfFile
    \/ CloseFinal
    \/ ClassifyToken
    \/ ClassifyEnd
    \/ CountMarkers
    \/ CountMarkersEnd
    \/ Output
    \/ AnParseArgs(ToolAnArgvs)
    \/ AnLoadBegin
    \/ AnLoadFileLine
    \/ AnLoadDefaultWord
    \/ AnLoadEnd
    \/ AnOpenInputs(ToolAnSources)
    \/ AnReadChar
    \/ AnEndOfFile
    \/ AnReport

SpecTools == InitTools /\ [][NextTools]_vars

\* load_cluster(hs, NULL, defaults): the iterations lo..hi of its loop, the
\* second half run on the value the first half leaves
RECURSIVE LoadDefaultsRange(_, _, _, _)
LoadDefaultsRange(hs, defaults, lo, hi) ==
    IF lo > hi THEN hs
    ELSE IF lo = hi THEN LoadDefault(hs, defaults, lo)
    ELSE LET mid == (lo + hi) \div 2
         IN  CHOOSE r \in {LoadDefaultsRange(h, defaults, mid + 1, hi) :
                              h \in {LoadDefaultsRange(hs, defaults, lo, mid)}} : TRUE

\* load_cluster(hs, file, NULL) on a file whose lines all take width bytes:
\* the iterations of its loop on the lines lo..hi
RECURSIVE LoadLinesRange(_, _, _, _, _)
LoadLinesRange(hs, content, width, lo, hi) ==
    IF lo > hi THEN hs
    ELSE IF lo = hi THEN LoadLine(hs, content, width * (lo - 1) + 1)
    ELSE LET mid == (lo + hi) \div 2
         IN  CHOOSE r \in {LoadLinesRange(h, content, width, mid + 1, hi) :
                              h \in {LoadLinesRange(hs, content, width, lo, mid)}} : TRUE

LoadAllDefaults(defaults) == LoadDefaultsRange(hs_init, defaults, 1, Len(defaults))

(* ---------------------------------------------------------------------- *)
(* States of a run named by the values of its variables                   *)
(* ---------------------------------------------------------------------- *)
StateIs(s) ==
    /\ pc = s.pc
    /\ exit_status = s.exit_status
    /\ args = s.args
    /\ void_set = s.void_set /\ pers_set = s.pers_set /\ tech_set = s.tech_set
    /\ load_pos = s.load_pos
    /\ inputs = s.inputs
    /\ fi = s.fi /\ byte_pos = s.byte_pos /\ word = s.word
    /\ word_start = s.word_start /\ newline_count = s.newline_count
    /\ tokens = s.tokens /\ token_file = s.token_file
    /\ para_id = s.para_id /\ para_start = s.para_start
    /\ paragraphs = s.paragraphs
    /\ n_paragraphs = s.n_paragraphs
    /\ i = s.i
    /\ hits = s.hits
    /\ total_void = s.total_void /\ personality_void = s.personality_void
    /\ residual_void = s.residual_void /\ anomalous_void = s.anomalous_void
    /\ total_personality_markers = s.total_personality_markers
    /\ total_technical_markers = s.total_technical_markers
    /\ scanned = s.scanned
    /\ pair = s.pair
    /\ opts = s.opts
    /\ cluster = s.cluster
    /\ total_tokens = s.total_tokens /\ total_hits = s.total_hits
    /\ cluster_hits = s.cluster_hits
    /\ source = s.source /\ out = s.out /\ err = s.err
    /\ probe = s.probe

\* the state in which main starts
StartState ==
    [pc |-> "args", exit_status |-> -1, args |-> ArgsStart,
     void_set |-> hs_init, pers_set |-> hs_init, tech_set |-> hs_init,
     load_pos |-> 0, inputs |-> << >>,
     fi |-> 0, byte_pos |-> 0, word |-> "", word_start |-> 0, newline_count |-> 0,
     tokens |-> << >>, token_file |-> << >>,
     para_id |-> 0, para_start |-> 0,
     paragraphs |-> (0 :> ZeroParagraph), n_paragraphs |-> 0,
     i |-> 0, hits |-> << >>,
     total_void |-> 0, personality_void |-> 0, residual_void |-> 0,
     anomalous_void |-> 0,
     total_personality_markers |-> 0, total_technical_markers |-> 0,
     scanned |-> NoScan, pair |-> NoPair,
     opts |-> OptsStart, cluster |-> hs_init,
     total_tokens |-> 0, total_hits |-> 0, cluster_hits |-> << >>,
     source |-> NoSource, out |-> << >>, err |-> << >>, probe |-> NoProbe]

\* the state in which a run without options starts to read text from stdin
ReadState(text) ==
    [StartState EXCEPT !.pc = "read",
                       !.args = [ArgsStart EXCEPT !.result = "run"],
                       !.void_set = LoadAllDefaults(VOID_CLUSTER),
                       !.pers_set = LoadAllDefaults(PERSONALITY_MARKERS),
                       !.tech_set = LoadAllDefaults(TECHNICAL_MARKERS),
                       !.inputs = <<text>>,
                       !.source = [files |-> << >>, stdin |-> text]]

(* ---------------------------------------------------------------------- *)
(* A run over more blank-line-separated paragraphs than the table holds   *)
(* ---------------------------------------------------------------------- *)
\* a one-word paragraph and the blank line that ends it
OneParagraph == "ab\n\n"

\* MAX_PARAGRAPHS + 1 one-word paragraphs
ManySectionsText == Rep(OneParagraph, MAX_PARAGRAPHS + 1)

ManySectionsSources == { [files |-> << >>, stdin |-> ManySectionsText] }

\* the state of the run on ManySectionsText once the fgetc loop has read m
\* paragraphs, m < MAX_PARAGRAPHS: m tokens, each in a closed paragraph
AfterParagraphs(m) ==
    LET start == ReadState(ManySectionsText)
        plen  == Len(OneParagraph)
    IN  [start EXCEPT
           !.byte_pos = plen * m,
           !.word_start = IF m = 0 THEN 0 ELSE plen * (m - 1) + 1,
           !.tokens = [k \in 1..m |->
                          [word |-> "ab",
                           is_void |-> hs_contains(start.void_set, "ab"),
                           is_personality |-> hs_contains(start.pers_set, "ab"),
                           para_id |-> k - 1,
                           byte_offset |-> plen * (k - 1) + 1]],
           !.token_file = [k \in 1..m |-> 0],
           !.para_id = m,
           !.para_start = m,
           !.paragraphs = [p \in 0..m |->
                              IF p < m
                              THEN [ZeroParagraph EXCEPT !.start_token = p,
                                                         !.end_token = p + 1,
                                                         !.total_tokens = 1]
                              ELSE [ZeroParagraph EXCEPT !.start_token = m]],
           !.n_paragraphs = m]

\* the paragraphs the run has still to read when the exploration starts
ManySectionsLeft == 32

InitManySections ==
    \E m \in (MAX_PARAGRAPHS + 1 - ManySectionsLeft)..(MAX_PARAGRAPHS - 1) :
        StateIs(AfterParagraphs(m))

NextManySections ==
    \/ ReadChar
    \/ EndOfFile
    \/ CloseFinal

SpecManySections == InitManySections /\ [][NextManySections]_vars

\* The same run from the start of main, its first paragraphs only.
ManySectionsChecked == 12

ReadCharChecked ==
    /\ byte_pos < Len(OneParagraph) * ManySectionsChecked
    /\ ReadChar

NextManySectionsStart ==
    \/ ParseArgs({ <<"prog">> })
    \/ LoadBegin
    \/ LoadDefaultWord
    \/ LoadEnd
    \/ OpenInputs(ManySectionsSources)
    \/ ReadCharChecked

SpecManySectionsStart == Init /\ [][NextManySectionsStart]_vars

\* under SpecManySectionsStart: at every paragraph end the run is in the
\* state AfterParagraphs gives
AfterParagraphsReached ==
    (pc = "read" /\ byte_pos % Len(OneParagraph) = 0) =>
        StateIs(AfterParagraphs(byte_pos \div Len(OneParagraph)))

(* ---------------------------------------------------------------------- *)
(* Scenario B: three cluster terms followed by three other words, read    *)
(* from stdin with an empty personality list and a radius of 3 or more    *)
(* ---------------------------------------------------------------------- *)
ScenarioBText == "void void void technical technical technical"

\* the same input with a word of TECHNICAL_MARKERS in place of "technical"
ScenarioBMarkerText == "void void void function function function"

ScenarioBArgvs ==
    { <<"prog", "-p", "none.txt">>,
      <<"prog", "-w", "3", "-p", "none.txt">>,
      <<"prog", "-w", "4", "-p", "none.txt">>,
      <<"prog", "-p", "none.txt", "-w", "250">> }

ScenarioBSources ==
    { [files |-> << >>, stdin |-> t] : t \in {ScenarioBText, ScenarioBMarkerText} }

NextScenarioB ==
    \/ ParseArgs(ScenarioBArgvs)
    \/ LoadBegin
    \/ LoadFileLine
    \/ LoadDefaultWord
    \/ LoadEnd
    \/ OpenInputs(ScenarioBSources)
    \/ ReadChar
    \/ EndOfFile
    \/ CloseFinal
    \/ ClassifyToken
    \/ ClassifyEnd
    \/ CountMarkers
    \/ CountMarkersEnd
    \/ Output

SpecScenarioB == Init /\ [][NextScenarioB]_vars

(* ---------------------------------------------------------------------- *)
(* A run that loads a cluster list of more words than the table has slots *)
(* ---------------------------------------------------------------------- *)
BigLineLen == Len(BigWord(0)) + 1

\* the state of the run with -v big.txt once load_cluster has read m lines
AfterLines(m) ==
    [StartState EXCEPT
       !.pc = "load_void",
       !.args = ParseOptions(<<"prog", "-v", "big.txt">>, ArgsStart),
       !.void_set = LoadLinesRange(hs_init, BigList, BigLineLen, 1, m),
       !.load_pos = BigLineLen * m + 1]

\* the lines the load has still to read when the exploration starts
FullTableLeft == 6

InitFullTable == StateIs(AfterLines(HASH_SIZE + 1 - FullTableLeft))

NextFullTable ==
    \/ LoadBegin
    \/ LoadFileLine
    \/ LoadDefaultWord
    \/ LoadEnd

SpecFullTable == InitFullTable /\ [][NextFullTable]_vars

\* The same run from the start of main, its first lines only.
FullTableChecked == 40

LoadFileLineChecked ==
    /\ load_pos <= BigLineLen * FullTableChecked
    /\ LoadFileLine

NextFullTableStart ==
    \/ ParseArgs({ <<"prog", "-v", "big.txt">> })
    \/ LoadBegin
    \/ LoadFileLineChecked

SpecFullTableStart == Init /\ [][NextFullTableStart]_vars

\* under SpecFullTableStart: after every line the run is in the state
\* AfterLines gives
AfterLinesReached ==
    (pc = "load_void" /\ load_pos >= 1) =>
        StateIs(AfterLines((load_pos - 1) \div BigLineLen))

(* ---------------------------------------------------------------------- *)
(* A run of the density analyzer on more different cluster words than the *)
(* frequency table has entries                                            *)
(* ---------------------------------------------------------------------- *)
ManyArgv == <<"prog", "-q", "-w", "many.txt">>

ManySources == { [files |-> << >>, stdin |-> ManyList] }

\* the cluster set once many.txt is loaded
ManyCluster == LoadLinesRange(hs_init, ManyList, BigLineLen, 1, MAX_WORDLIST + 1)

\* the state of the run on the words of many.txt once the fgetc loop has
\* read m of them, m <= MAX_WORDLIST: each counted once, in an entry of its own
AfterWords(m) ==
    [StartState EXCEPT
       !.pc = "an_read",
       !.opts = AnParseOptions(ManyArgv, OptsFor(ManyArgv)),
       !.cluster = ManyCluster,
       !.inputs = <<ManyList>>,
       !.byte_pos = BigLineLen * m,
       !.total_tokens = m,
       !.total_hits = m,
       !.cluster_hits = [k \in 1..m |-> [word |-> BigWord(k - 1), count |-> 1]],
       !.source = [files |-> << >>, stdin |-> ManyList]]

\* the words the run has still to read when the exploration starts
FullFreqTableLeft == 32

InitFullFreqTable ==
    \E m \in (MAX_WORDLIST + 1 - FullFreqTableLeft)..MAX_WORDLIST :
        StateIs(AfterWords(m))

NextFullFreqTable ==
    \/ AnReadChar
    \/ AnEndOfFile
    \/ AnReport

SpecFullFreqTable == InitFullFreqTable /\ [][NextFullFreqTable]_vars

\* The same run from the start of main, its first words only.
FullFreqTableChecked == 12

AnReadCharChecked ==
    /\ byte_pos < BigLineLen * FullFreqTableChecked
    /\ AnReadChar

NextFullFreqTableStart ==
    \/ AnParseArgs({ManyArgv})
    \/ AnLoadBegin
    \/ AnLoadFileLine
    \/ AnLoadEnd
    \/ AnOpenInputs(ManySources)
    \/ AnReadCharChecked

SpecFullFreqTableStart == InitAnalyzer /\ [][NextFullFreqTableStart]_vars

\* under SpecFullFreqTableStart: at every word end the run is in the state
\* AfterWords gives
AfterWordsReached ==
    (pc = "an_read" /\ byte_pos % BigLineLen = 0) =>
        StateIs(AfterWords(byte_pos \div BigLineLen))

(* ---------------------------------------------------------------------- *)
(* Vocabulary of the properties                                           *)
(* ---------------------------------------------------------------------- *)
\* the classification loop has reached token i; it is over when Classified
Classifying == pc \in {"classify", "markers", "output", "done"}
Classified == pc \in {"markers", "output", "done"}

\* the number of tokens the classification loop has passed
Passed == IF pc = "classify" THEN i ELSE n_tokens

SeqRange(q) == {q[k] : k \in DOMAIN q}

\* the technical markers as a plain set of words
TechWords == SeqRange(TECHNICAL_MARKERS)

IsVoid(k) == Tok(tokens, k).is_void = 1
IsPers(k) == Tok(tokens, k).is_personality = 1
IsTech(k) == Tok(tokens, k).word \in TechWords

\* the neighbours of token k: within the radius, inside the corpus, not k
WindowOf(k) ==
    {j \in 0..(n_tokens - 1) :
        /\ Max(0, k - window) <= j
        /\ j <= Min(n_tokens - 1, k + window)
        /\ j # k}

PersIn(k) == Cardinality({j \in WindowOf(k) : IsPers(j)})
TechIn(k) == Cardinality({j \in WindowOf(k) : IsTech(j)})

HitsLabeled(label) == {h \in DOMAIN hits : hits[h].classification = label}

\* the cluster-term tokens the classification loop has passed
VoidSeen == {k \in 0..(Passed - 1) : IsVoid(k)}

RECURSIVE SumTo(_, _)
SumTo(f, n) == IF n <= 0 THEN 0 ELSE f[n - 1] + SumTo(f, n - 1)

SectionSum(Field(_)) ==
    SumTo([p \in 0..(n_paragraphs - 1) |-> Field(paragraphs[p])], n_paragraphs)

(* ---------------------------------------------------------------------- *)
(* C1: every cluster-term token gets exactly one label, by strict         *)
(* priority: Personality when its window holds a personality marker,      *)
(* else Anomalous when it holds a technical marker, else Residual; a      *)
(* window with both kinds of marker gives Personality.                    *)
(* ---------------------------------------------------------------------- *)
C1_PriorityLabel ==
    Classifying =>
       /\ \A k \in VoidSeen :
            Cardinality({h \in DOMAIN hits : hits[h].token_idx = k}) = 1
       /\ \A h \in DOMAIN hits :
            LET k == hits[h].token_idx
            IN  hits[h].classification =
                  (IF PersIn(k) > 0 THEN "P"
                   ELSE IF TechIn(k) > 0 THEN "A"
                   ELSE "R")

C1_Witness ==
    /\ pc = "done"
    /\ \E h \in DOMAIN hits :
         /\ PersIn(hits[h].token_idx) > 0
         /\ TechIn(hits[h].token_idx) > 0
         /\ hits[h].classification = "P"
    /\ \E h \in DOMAIN hits : hits[h].classification = "A"
    /\ \E h \in DOMAIN hits : hits[h].classification = "R"

(* ---------------------------------------------------------------------- *)
(* C2: the hits labeled Personality, Anomalous and Residual add up to the *)
(* cluster-term tokens: each is counted once, in one label bucket, and    *)
(* the counters of the program agree with the labels.                     *)
(* ---------------------------------------------------------------------- *)
C2_LabelsPartitionHits ==
    Classifying =>
       /\ Cardinality(HitsLabeled("P")) + Cardinality(HitsLabeled("A"))
            + Cardinality(HitsLabeled("R")) = Cardinality(VoidSeen)
       /\ total_void = Cardinality(VoidSeen)
       /\ personality_void = Cardinality(HitsLabeled("P"))
       /\ anomalous_void = Cardinality(HitsLabeled("A"))
       /\ residual_void - anomalous_void = Cardinality(HitsLabeled("R"))

C2_Witness ==
    /\ pc = "done"
    /\ Cardinality(HitsLabeled("P")) >= 1
    /\ Cardinality(HitsLabeled("A")) >= 1
    /\ Cardinality(HitsLabeled("R")) >= 1
    /\ total_void = 3

(* ---------------------------------------------------------------------- *)
(* C3: summed over the reported sections, the section hit counts equal    *)
(* the corpus counts: cluster hits, personality-attributed hits and       *)
(* non-personality hits.                                                  *)
(* ---------------------------------------------------------------------- *)
FieldVoidHits(para) == para.void_hits
FieldPersonalityVoid(para) == para.personality_void
FieldResidualVoid(para) == para.residual_void
FieldTotalTokens(para) == para.total_tokens

C3_SectionSums ==
    Classifying =>
       /\ SectionSum(FieldVoidHits) = total_void
       /\ SectionSum(FieldPersonalityVoid) = personality_void
       /\ SectionSum(FieldResidualVoid) = residual_void

C3_Witness ==
    /\ pc = "done"
    /\ n_paragraphs >= 2
    /\ paragraphs[0].void_hits >= 1
    /\ paragraphs[1].void_hits >= 1
    /\ personality_void >= 1
    /\ residual_void >= 1

(* ---------------------------------------------------------------------- *)
(* C4: after tokenization the reported sections [start_token, end_token)  *)
(* are non-empty and contiguous, the first starts at 0, the last ends at  *)
(* the corpus length, and their token counts add up to the token count.   *)
(* ---------------------------------------------------------------------- *)
C4_SectionsCoverCorpus ==
    Classifying =>
       /\ n_paragraphs >= 1
       /\ paragraphs[0].start_token = 0
       /\ paragraphs[n_paragraphs - 1].end_token = n_tokens
       /\ \A p \in 0..(n_paragraphs - 1) :
            /\ paragraphs[p].start_token < paragraphs[p].end_token
            /\ paragraphs[p].total_tokens =
                 paragraphs[p].end_token - paragraphs[p].start_token
       /\ \A p \in 0..(n_paragraphs - 2) :
            paragraphs[p].end_token = paragraphs[p + 1].start_token
       /\ \A k \in 0..(n_tokens - 1) :
            Cardinality({p \in 0..(n_paragraphs - 1) : InParagraph(paragraphs, p, k)}) = 1
       /\ SectionSum(FieldTotalTokens) = n_tokens

C4_Witness ==
    /\ pc = "done"
    /\ n_paragraphs = 2
    /\ paragraphs[0].total_tokens = 2
    /\ paragraphs[1].total_tokens = 1

(* ---------------------------------------------------------------------- *)
(* C5: the window scan of the hit at index k reads exactly the indices j  *)
(* with max(0, k-W) <= j <= min(N-1, k+W), j # k: none negative, none at  *)
(* or beyond N, no wraparound; at index 0 with W = 15 the lower bound is 0.*)
(* ---------------------------------------------------------------------- *)
C5_WindowIndices ==
    scanned.centre >= 0 =>
       /\ scanned.indices = WindowOf(scanned.centre)
       /\ scanned.indices \subseteq 0..(n_tokens - 1)
       /\ scanned.lo = Max(0, scanned.centre - window)
       /\ scanned.hi = Min(n_tokens - 1, scanned.centre + window)

C5_Witness ==
    /\ scanned.centre = 0
    /\ window = DEFAULT_WINDOW
    /\ scanned.lo = 0
    /\ scanned.hi = n_tokens - 1
    /\ Cardinality(scanned.indices) >= 2

\* a scan whose radius reaches neither end of the corpus
C5_InnerWitness ==
    /\ scanned.centre = 1
    /\ window = 1
    /\ n_tokens = 4
    /\ scanned.indices = {0, 2}

(* ---------------------------------------------------------------------- *)
(* C7: a new section starts exactly where two or more consecutive line    *)
(* breaks lie between two accepted tokens; a lone line break never        *)
(* splits.  The number of sections is one plus the number of such gaps.   *)
(* ---------------------------------------------------------------------- *)
\* the bytes of all streams in reading order, and where stream f starts
RECURSIVE ConcatFrom(_)
ConcatFrom(f) == IF f > n_inputs THEN "" ELSE inputs[f] \o ConcatFrom(f + 1)

Corpus == ConcatFrom(1)

RECURSIVE BaseOf(_)
BaseOf(f) == IF f = 0 THEN 0 ELSE Len(inputs[f]) + BaseOf(f - 1)

\* the position in Corpus of the first character of token k
StartOf(k) == BaseOf(token_file[k + 1]) + Tok(tokens, k).byte_offset

\* the text between token k and token k + 1
Between(k) == SubSeq(Corpus, StartOf(k) + Len(Tok(tokens, k).word), StartOf(k + 1) - 1)

\* two line breaks with nothing but carriage returns between them
HasBlankLine(t) ==
    \E q1 \in 1..Len(t) :
       /\ CharAt(t, q1) = "\n"
       /\ \E q2 \in (q1 + 1)..Len(t) :
            /\ CharAt(t, q2) = "\n"
            /\ \A q \in (q1 + 1)..(q2 - 1) : CharAt(t, q) = "\r"

Gap(k) == HasBlankLine(Between(k))

Gaps == {k \in 0..(n_tokens - 2) : Gap(k)}

\* the first token of each reported section
SectionStarts == {paragraphs[p].start_token : p \in 0..(n_paragraphs - 1)}

C7_SectionPerBlankLineGap ==
    Classifying =>
       /\ n_paragraphs = 1 + Cardinality(Gaps)
       /\ \A k \in 0..(n_tokens - 2) : ((k + 1) \in SectionStarts) <=> Gap(k)

\* three tokens: a lone line break between the first two, a blank line
\* between the last two
C7_Witness ==
    /\ pc = "done"
    /\ n_tokens = 3
    /\ Between(0) = "\n"
    /\ Gap(1)
    /\ n_paragraphs = 2
    /\ paragraphs[0].total_tokens + paragraphs[1].total_tokens = n_tokens

\* no blank-line gap: one section holding all tokens
C7_OneSectionWitness ==
    /\ pc = "done"
    /\ n_tokens = 3
    /\ Gaps = {}
    /\ n_paragraphs = 1
    /\ paragraphs[0].total_tokens = 3

(* ---------------------------------------------------------------------- *)
(* C8 as stated: for the input "void void void technical technical        *)
(* technical", a radius of 3 or more and no personality marker loaded,    *)
(* the run ends with 6 tokens and its 3 void hits labeled Anomalous.      *)
(* ---------------------------------------------------------------------- *)
ScenarioBDone ==
    pc = "done" /\ window >= 3 /\ pers_set.count = 0

AllHitsLabeled(label) ==
    \A h \in DOMAIN hits : hits[h].classification = label

C8_ScenarioB ==
    (ScenarioBDone /\ inputs = <<ScenarioBText>>) =>
        /\ n_tokens = 6
        /\ total_void = 3 /\ n_hits = 3
        /\ AllHitsLabeled("A")

(* ---------------------------------------------------------------------- *)
(* C8 as amended: "technical" is not a word of the built-in technical     *)
(* list, so with that input, a radius of 3 or more and no personality     *)
(* marker loaded the 3 void hits are labeled Residual; with a word of the *)
(* technical list ("function") in its place they are labeled Anomalous.   *)
(* ---------------------------------------------------------------------- *)
C8_ScenarioBAsCoded ==
    ScenarioBDone =>
        /\ n_tokens = 6
        /\ total_void = 3 /\ n_hits = 3
        /\ \A h \in DOMAIN hits : hits[h].personality_count = 0
        /\ inputs = <<ScenarioBText>> =>
              /\ AllHitsLabeled("R")
              /\ \A h \in DOMAIN hits : hits[h].technical_count = 0
              /\ anomalous_void = 0
        /\ inputs = <<ScenarioBMarkerText>> =>
              /\ AllHitsLabeled("A")
              /\ \A h \in DOMAIN hits : hits[h].technical_count > 0
              /\ anomalous_void = 3

C8_Witness ==
    /\ ScenarioBDone /\ window = 3
    /\ inputs = <<ScenarioBText>>
    /\ n_hits = 3 /\ AllHitsLabeled("R")
    /\ "technical" \notin TechWords

C8_MarkerWitness ==
    /\ ScenarioBDone /\ window = 3
    /\ inputs = <<ScenarioBMarkerText>>
    /\ n_hits = 3 /\ AllHitsLabeled("A")

(* ---------------------------------------------------------------------- *)
(* C9: membership in a loaded word list is exact, case-normalized string  *)
(* match.  Whatever the list (duplicates, words whose hashes collide),    *)
(* hs_contains answers 1 for every listed word and 0 for a word that is   *)
(* not listed, a duplicate adds nothing to the set or its count, and a    *)
(* token is flagged iff its lowercased text is a listed word.             *)
(* ---------------------------------------------------------------------- *)
\* the lines of a list file (all shorter than MAX_WORD_LEN - 1 here)
LineStarts(content) ==
    {s \in 1..Len(content) : s = 1 \/ CharAt(content, s - 1) = "\n"}

LineFrom(content, s) ==
    LET far  == Min(Len(content), s + MAX_WORD_LEN - 2)
        ends == {e \in s..far : CharAt(content, e) = "\n"}
        last == IF ends = {} THEN far
                ELSE (CHOOSE e \in ends : \A d \in ends : e <= d) - 1
        line == SubSeq(content, s, last)
    IN  IF line # "" /\ CharAt(line, Len(line)) = "\r"
        THEN SubSeq(line, 1, Len(line) - 1)
        ELSE line

\* the words a list names: its non-empty, non-comment lines, lowercased
ListedInFile(content) ==
    {w \in {lowercase(LineFrom(content, s)) : s \in LineStarts(content)} :
        w # "" /\ CharAt(w, 1) # "#"}

ListedWords(file, defaults) ==
    IF file = NULL
    THEN {lowercase(defaults[k]) : k \in DOMAIN defaults}
    ELSE ListedInFile(FileContent(file))

VoidListed == ListedWords(args.void_file, VOID_CLUSTER)
PersListed == ListedWords(args.pers_file, PERSONALITY_MARKERS)
TechListed == ListedWords(NULL, TECHNICAL_MARKERS)

Running == {"open", "read", "classify", "markers", "output", "done"}
VoidLoaded == pc \in {"load_pers", "load_tech"} \cup Running
PersLoaded == pc \in {"load_tech"} \cup Running
TechLoaded == pc \in Running

\* words asked of every set: the listed words of the three sets, words in
\* upper case, words that share a slot with a listed word
ProbeWords ==
    VoidListed \cup PersListed \cup TechListed
        \cup {"Void", "LOL", "voi", "voids", "aa", "dgc", "lo", "technical"}

ExactSet(hs, listed) ==
    /\ hs.count = Cardinality(listed)
    /\ \A w \in listed : hs_contains(hs, w) = 1
    /\ \A w \in ProbeWords \ listed : hs_contains(hs, w) = 0

C9_ExactMembership ==
    /\ VoidLoaded => ExactSet(void_set, VoidListed)
    /\ PersLoaded => ExactSet(pers_set, PersListed)
    /\ TechLoaded => ExactSet(tech_set, TechListed)
    /\ pc \in Running =>
          \A k \in 0..(n_tokens - 1) :
              /\ Tok(tokens, k).is_void = 1 <=> Tok(tokens, k).word \in VoidListed
              /\ Tok(tokens, k).is_personality = 1 <=> Tok(tokens, k).word \in PersListed

(* ---------------------------------------------------------------------- *)
(* C10: in the density analyzer the counts of the frequency table, summed *)
(* over all its entries, equal the total cluster-hit count, whatever the  *)
(* input and the cluster word list.                                       *)
(* ---------------------------------------------------------------------- *)
RECURSIVE SumCounts(_, _, _)
SumCounts(table, lo, hi) ==
    IF lo > hi THEN 0
    ELSE IF lo = hi THEN table[lo].count
    ELSE SumCounts(table, lo, (lo + hi) \div 2) + SumCounts(table, ((lo + hi) \div 2) + 1, hi)

C10_TableSumsToHits ==
    pc \in {"an_read", "an_done"} =>
        SumCounts(cluster_hits, 1, n_cluster_hits) = total_hits

C10_Witness ==
    /\ pc = "an_done"
    /\ n_cluster_hits >= 2
    /\ \E k \in 1..n_cluster_hits : cluster_hits[k].count >= 2
    /\ total_tokens > total_hits

(* ---------------------------------------------------------------------- *)
(* Two corpora classified side by side, with the built-in word lists      *)
(* ---------------------------------------------------------------------- *)
PairLen == 3

PairWords == {"void", "lol", "api"}

PairWindows == {1, DEFAULT_WINDOW}

WordSeqs(n) == [1..n -> PairWords]

InitPositional ==
    /\ pc = "pair"
    /\ exit_status = -1
    /\ args = [ArgsStart EXCEPT !.result = "run"]
    /\ void_set = LoadAllDefaults(VOID_CLUSTER)
    /\ pers_set = LoadAllDefaults(PERSONALITY_MARKERS)
    /\ tech_set = LoadAllDefaults(TECHNICAL_MARKERS)
    /\ load_pos = 0
    /\ inputs = << >>
    /\ fi = 0 /\ byte_pos = 0 /\ word = "" /\ word_start = 0 /\ newline_count = 0
    /\ tokens = << >> /\ token_file = << >>
    /\ para_id = 0 /\ para_start = 0
    /\ paragraphs = (0 :> ZeroParagraph)
    /\ n_paragraphs = 0
    /\ i = 0
    /\ hits = << >>
    /\ total_void = 0 /\ personality_void = 0 /\ residual_void = 0
    /\ anomalous_void = 0
    /\ total_personality_markers = 0 /\ total_technical_markers = 0
    /\ scanned = NoScan
    /\ pair = NoPair
    /\ opts = OptsStart
    /\ cluster = hs_init
    /\ total_tokens = 0 /\ total_hits = 0
    /\ cluster_hits = << >>
    /\ source = NoSource /\ out = << >> /\ err = << >>
    /\ probe = NoProbe

\* two token sequences of the same length: the first in one section, the
\* second with every token in a section of its own
PickPair ==
    /\ pc = "pair" /\ pair = NoPair
    /\ \E wa \in WordSeqs(PairLen), wb \in WordSeqs(PairLen), w \in PairWindows :
         pair' = [a |-> [k \in 1..PairLen |-> NewToken(wa[k], 0, 3 * k - 2)],
                  b |-> [k \in 1..PairLen |-> NewToken(wb[k], k - 1, 5 * k - 4)],
                  w |-> w, k |-> 0, hits_a |-> << >>, hits_b |-> << >>]
    /\ UNCHANGED <<ctlVars, args, setVars, inVars, tokVars,
                   i, hits, total_void, personality_void, residual_void, anomalous_void,
                   total_personality_markers, total_technical_markers, scanned>>
    /\ UNCHANGED anVars
    /\ UNCHANGED ioVars
    /\ UNCHANGED probe

\* the hit log after the classification loop has passed token k of toks
HitsAfter(log, toks, k, w) ==
    IF Tok(toks, k).is_void = 1
    THEN Append(log, HitOf(toks, tech_set, k, w))
    ELSE log

ClassifyPair ==
    /\ pc = "pair" /\ pair # NoPair
    /\ pair.k < Len(pair.a)
    /\ pair' = [pair EXCEPT
                  !.hits_a = HitsAfter(@, pair.a, pair.k, pair.w),
                  !.hits_b = HitsAfter(@, pair.b, pair.k, pair.w),
                  !.k = @ + 1]
    /\ UNCHANGED <<ctlVars, args, setVars, inVars, tokVars,
                   i, hits, total_void, personality_void, residual_void, anomalous_void,
                   total_personality_markers, total_technical_markers, scanned>>
    /\ UNCHANGED anVars
    /\ UNCHANGED ioVars
    /\ UNCHANGED probe

NextPositional == PickPair \/ ClassifyPair

SpecPositional == InitPositional /\ [][NextPositional]_vars

(* ---------------------------------------------------------------------- *)
(* C6: classification is positional.  When two corpora of equal length    *)
(* agree on the personality and technical membership of every token       *)
(* within W of a cluster-term token, that token gets the same window      *)
(* counts and the same label in both, whatever lies outside the window    *)
(* and wherever the section boundaries fall.                              *)
(* ---------------------------------------------------------------------- *)
Near(j, k, w) == j # k /\ j - k <= w /\ k - j <= w

AgreeNear(k) ==
    \A j \in 0..(Len(pair.a) - 1) :
       Near(j, k, pair.w) =>
          /\ Tok(pair.a, j).is_personality = Tok(pair.b, j).is_personality
          /\ (Tok(pair.a, j).word \in TechWords) = (Tok(pair.b, j).word \in TechWords)

C6_Positional ==
    \A ha \in DOMAIN pair.hits_a, hb \in DOMAIN pair.hits_b :
       (/\ pair.hits_a[ha].token_idx = pair.hits_b[hb].token_idx
        /\ AgreeNear(pair.hits_a[ha].token_idx))
       => /\ pair.hits_a[ha].personality_count = pair.hits_b[hb].personality_count
          /\ pair.hits_a[ha].technical_count = pair.hits_b[hb].technical_count
          /\ pair.hits_a[ha].classification = pair.hits_b[hb].classification

\* a hit at index 0 with W = 1: the corpora differ two tokens away, where
\* one has a personality marker, and in their section boundaries
C6_Witness ==
    /\ pair # NoPair /\ pair.k = Len(pair.a)
    /\ pair.w = 1
    /\ \E ha \in DOMAIN pair.hits_a, hb \in DOMAIN pair.hits_b :
         /\ pair.hits_a[ha].token_idx = 0
         /\ pair.hits_b[hb].token_idx = 0
         /\ AgreeNear(0)
         /\ Tok(pair.a, 2).is_personality = 1
         /\ Tok(pair.b, 2).is_personality = 0
         /\ Tok(pair.a, 2).para_id # Tok(pair.b, 2).para_id
         /\ pair.hits_a[ha].classification = "A"
         /\ pair.hits_b[hb].classification = "A"

\* the sets InitPositional starts from are the sets a run with no -v and no
\* -p option has loaded when it opens its inputs
LoadedDefaultsReached ==
    (pc = "open" /\ args.void_file = NULL /\ args.pers_file = NULL) =>
       /\ void_set = LoadAllDefaults(VOID_CLUSTER)
       /\ pers_set = LoadAllDefaults(PERSONALITY_MARKERS)
       /\ tech_set = LoadAllDefaults(TECHNICAL_MARKERS)

(* ---------------------------------------------------------------------- *)
(* What the runs write                                                    *)
(* ---------------------------------------------------------------------- *)
\* the entries of the given kind written to stdout so far
Written(kind) == SelectSeq(out, LAMBDA e : e.kind = kind)

\* the personality filter has ended in quiet mode
QuietDone == pc = "done" /\ args.quiet = 1

\* C11: in the record the personality filter writes in quiet mode, the
\* personality-hit, residual-hit and anomalous-hit fields sum to the
\* raw-hit field.
C11_RecordFieldsSum ==
    QuietDone =>
        \A k \in 1..Len(Written("record")) :
            LET f == Written("record")[k].fields
            IN  f[2] + f[3] + f[4] = f[1]

\* C11 as the code has it: the residual-hit field counts every hit that is
\* not a Personality hit, the anomalous ones among them, so that the
\* personality-hit and residual-hit fields sum to the raw-hit field and the
\* anomalous-hit field is at most the residual-hit field.
C11_RecordFieldsSumAsCoded ==
    QuietDone =>
        \A k \in 1..Len(Written("record")) :
            LET f == Written("record")[k].fields
            IN  /\ f[2] + f[3] = f[1]
                /\ f[4] <= f[3]

\* a quiet run has written a record that counts an Anomalous hit
C11_Witness ==
    /\ QuietDone
    /\ Len(Written("record")) = 1
    /\ Written("record")[1].fields[4] > 0

\* the messages of the given kind written to stderr so far
Reported(kind) == SelectSeq(err, LAMBDA e : e.kind = kind)

\* the run has opened its inputs and is past reading them
ReadAll == source # NoSource /\ pc \notin {"read", "an_read"}

\* neither tool has accepted a token
NoTokenAccepted == tokens = << >> /\ total_tokens = 0

\* C12: a run of either tool that has read all its sources without
\* accepting a token has ended with a non-zero exit status and the
\* "No tokens found" diagnostic on stderr, and has written nothing to stdout.
C12_EmptyCorpusFails ==
    (ReadAll /\ NoTokenAccepted) =>
        /\ pc = "exit"
        /\ exit_status > 0
        /\ Len(Reported("no_tokens")) = 1
        /\ out = << >>

\* a run whose file operands all failed to open, with text waiting on
\* stdin, has ended
C12_Witness ==
    /\ ReadAll /\ NoTokenAccepted
    /\ source.files # << >> /\ source.stdin # ""
    /\ inputs = << >>

\* a run on input that holds only rejected runs of word characters has ended
C12_RejectedWitness ==
    /\ ReadAll /\ NoTokenAccepted
    /\ source.files = << >>
    /\ \E k \in 1..Len(source.stdin) : is_word_char(CharAt(source.stdin, k))

\* a run on empty input has ended
C12_EmptyWitness ==
    /\ ReadAll /\ NoTokenAccepted
    /\ source.files = << >> /\ source.stdin = ""

\* both tools end such a run
C12_AnalyzerWitness ==
    /\ ReadAll /\ NoTokenAccepted
    /\ opts.result = "run"

(* ---------------------------------------------------------------------- *)
(* Tokens as the rule describes them                                      *)
(* ---------------------------------------------------------------------- *)
\* a character of a run: a letter, an apostrophe or a hyphen
IsLetter(c) == IndexIn(LowerCase, c) > 0 \/ IndexIn(UpperCase, c) > 0
IsRunChar(c) == IsLetter(c) \/ c = "'" \/ c = "-"

\* the maximal runs of such characters in text, in their order: a run
\* starts at a run character that follows none and ends before the next
\* character that is none
RunsOf(text) ==
    LET n == Len(text)
        InRun(k) == IsRunChar(CharAt(text, k))
        starts == {k \in 1..n : InRun(k) /\ (k = 1 \/ ~InRun(k - 1))}
        ends == {k \in 1..n : InRun(k) /\ (k = n \/ ~InRun(k + 1))}
        StartNo(j) == CHOOSE k \in starts : Cardinality({h \in starts : h <= k}) = j
        EndNo(j) == CHOOSE k \in ends : Cardinality({h \in ends : h <= k}) = j
    IN  [j \in 1..Cardinality(starts) |-> SubSeq(text, StartNo(j), EndNo(j))]

\* the runs that make tokens: first character a letter, at least minlen
\* characters; each lowercased
WordsOf(text, minlen) ==
    LET Accepted(r) == IsLetter(CharAt(r, 1)) /\ Len(r) >= minlen
        runs == SelectSeq(RunsOf(text), Accepted)
    IN  [k \in 1..Len(runs) |-> lowercase(runs[k])]

\* the words of the files of a list, one file after the other
RECURSIVE WordsOfFiles(_, _)
WordsOfFiles(files, minlen) ==
    IF files = << >> THEN << >>
    ELSE WordsOf(Head(files), minlen) \o WordsOfFiles(Tail(files), minlen)

\* the words of the tokens the filter has stored
TokenWords == [k \in 1..n_tokens |-> tokens[k].word]

\* the file operands that can be opened, in their order
ReadableFiles == SelectSeq(source.files, LAMBDA f : f # NULL)

\* the operands that cannot
UnreadableOperands == {k \in 1..Len(source.files) : source.files[k] = NULL}

FilterRun == args.result = "run"
AnalyzerRun == opts.result = "run"

\* C13: when some file operands cannot be opened, the run has written one
\* diagnostic for each of them and has read the readable ones in their
\* order and nothing else (not stdin): it has opened the streams a run
\* over the readable operands alone opens, and the filter's token sequence,
\* and the analyzer's token and hit counts, are those of the readable files.
C13_UnreadableSkipped ==
    (ReadAll /\ UnreadableOperands # {}) =>
        /\ inputs = IF ReadableFiles = << >> THEN << >>
                    ELSE OpenedInputs([files |-> ReadableFiles, stdin |-> source.stdin])
        /\ Len(Reported("perror")) = Cardinality(UnreadableOperands)
        /\ \A k \in UnreadableOperands :
               \E j \in 1..Len(err) : err[j] = Message("perror", OperandName(k))
        /\ FilterRun => TokenWords = WordsOfFiles(ReadableFiles, 2)
        /\ AnalyzerRun =>
               LET words == WordsOfFiles(ReadableFiles, 1)
               IN  /\ total_tokens = Len(words)
                   /\ total_hits = Len(SelectSeq(words, LAMBDA w : hs_contains(cluster, w) = 1))
        /\ (pc = "exit") <=> NoTokenAccepted

\* a run of the filter has read a readable operand that follows an
\* unreadable one, and has stored its tokens
C13_Witness ==
    /\ ReadAll /\ FilterRun
    /\ Len(source.files) >= 2 /\ source.files[1] = NULL
    /\ n_tokens > 0

\* a run of the analyzer has counted the tokens of the two readable
\* operands around an unreadable one
C13_AnalyzerWitness ==
    /\ ReadAll /\ AnalyzerRun
    /\ Len(source.files) = 3 /\ source.files[2] = NULL
    /\ total_hits > 1

\* a run whose operands all fail has ended without reading stdin
C13_NoFallbackWitness ==
    /\ ReadAll /\ UnreadableOperands # {}
    /\ ReadableFiles = << >> /\ source.stdin # ""

(* ---------------------------------------------------------------------- *)
(* A run over more cluster-term hits than the hit log holds               *)
(* ---------------------------------------------------------------------- *)
\* a cluster term that is neither a personality nor a technical marker
OneHit == "void "

\* n such hits on stdin, the debug listing asked for
HitLogText(n) == Rep(OneHit, n)
HitLogArgv == <<"prog", "-d">>
HitLogSources(n) == { [files |-> << >>, stdin |-> HitLogText(n)] }

\* the state of the run on HitLogText(n) when the fgetc loop is over and
\* the final paragraph is closed: n tokens in one paragraph
AfterReading(n) ==
    LET start == ReadState(HitLogText(n))
        void_ == hs_contains(start.void_set, "void")
        pers_ == hs_contains(start.pers_set, "void")
    IN  [start EXCEPT
           !.pc = "classify",
           !.args = ParseOptions(HitLogArgv, ArgsStart),
           !.fi = 1,
           !.tokens = [k \in 1..n |->
                          [word |-> "void", is_void |-> void_, is_personality |-> pers_,
                           para_id |-> 0,
                           byte_offset |-> Len(OneHit) * (k - 1) + 1]],
           !.token_file = [k \in 1..n |-> 0],
           !.paragraphs = (0 :> [ZeroParagraph EXCEPT !.end_token = n,
                                                      !.total_tokens = n]),
           !.n_paragraphs = 1]

\* the same run once the classification loop has passed m tokens: m hits,
\* all Residual, of which the first MAX_HIT_LOG are logged
AfterHits(n, m) ==
    LET w == DEFAULT_WINDOW
    IN  [AfterReading(n) EXCEPT
           !.i = m,
           !.hits = [k \in 1..Min(m, MAX_HIT_LOG) |->
                        [token_idx |-> k - 1,
                         has_personality |-> 0, has_technical |-> 0,
                         personality_count |-> 0, technical_count |-> 0,
                         classification |-> "R"]],
           !.total_void = m,
           !.residual_void = m,
           !.scanned = IF m = 0 THEN NoScan
                       ELSE ScanOf(m - 1, w, n),
           !.paragraphs = (0 :> [ZeroParagraph EXCEPT !.end_token = n,
                                                      !.total_tokens = n,
                                                      !.void_hits = m,
                                                      !.residual_void = m])]

\* the same run once the second pass has passed j tokens
AfterMarkers(n, j) == [AfterHits(n, n) EXCEPT !.pc = "markers", !.i = j]

\* the tokens each loop has still to pass when the exploration starts
HitLogLeft == 56

HitLogTokens == MAX_HIT_LOG + 1

InitHitLog ==
    \E m \in (HitLogTokens - HitLogLeft)..HitLogTokens :
        \/ StateIs(AfterHits(HitLogTokens, m))
        \/ StateIs(AfterMarkers(HitLogTokens, m))

NextHitLog ==
    \/ ClassifyToken
    \/ CountMarkers
    \/ CountMarkersEnd
    \/ Output

SpecHitLog == InitHitLog /\ [][NextHitLog]_vars

\* the closed forms are the states of the run: from the start of main on
\* a short text of the same kind
HitLogChecked == 12

NextHitLogStart ==
    \/ ParseArgs({HitLogArgv})
    \/ LoadBegin
    \/ LoadDefaultWord
    \/ LoadEnd
    \/ OpenInputs(HitLogSources(HitLogChecked))
    \/ ReadChar
    \/ EndOfFile
    \/ CloseFinal
    \/ ClassifyToken
    \/ ClassifyEnd
    \/ CountMarkers
    \/ CountMarkersEnd
    \/ Output

SpecHitLogStart == Init /\ [][NextHitLogStart]_vars

\* under SpecHitLogStart and SpecHitLog: in both loops the run is in the
\* state the closed form gives
AfterHitsReached ==
    /\ pc = "classify" => StateIs(AfterHits(n_tokens, i))
    /\ pc = "markers" => StateIs(AfterMarkers(n_tokens, i))

\* the run has told that hits were left out of the log
TruncationReported ==
    \/ \E k \in 1..Len(out) : out[k].kind = "truncation"
    \/ \E k \in 1..Len(err) : err[k].kind = "truncation"

\* C14: when a run ends with more cluster-term hits than the hit log
\* holds, it has reported that the log is truncated.
C14_TruncationReported ==
    (pc = "done" /\ total_void > n_hits) => TruncationReported

(* ---------------------------------------------------------------------- *)
(* The flush of the word buffer into token stores of given sizes          *)
(* ---------------------------------------------------------------------- *)
\* the sizes of the small stores
FlushSmall == 10

\* the word buffers flushed: accepted words, a one-letter word, a word
\* that starts with a hyphen
FlushWords == {"ab", "Ab'c", "x-y", "a", "-b"}

\* a store size and a buffer: every buffer on the small stores, an accepted
\* word on the store with one free slot and on the full store
FlushCases ==
    {[n_tokens |-> n, word |-> w] : n \in 0..FlushSmall, w \in FlushWords}
    \cup {[n_tokens |-> n, word |-> "ab"] : n \in {MAX_TOKENS - 1, MAX_TOKENS}}

\* a token store of n two-letter words, each followed by a blank
StoreOf(n) ==
    LET t == NewToken("ab", 0, 0)
    IN  [k \in 1..n |-> [t EXCEPT !.byte_offset = 3 * (k - 1) + 1]]

InitFlush == StateIs([StartState EXCEPT !.pc = "flush"])

PickStore ==
    /\ pc = "flush" /\ probe = NoProbe
    /\ \E c \in FlushCases : probe' = [n_tokens |-> c.n_tokens, word |-> c.word, stored |-> -1]
    /\ UNCHANGED <<ctlVars, args, setVars, inVars, tokVars, clsVars, anVars, ioVars>>

\* the else-branch of the fgetc loop and the flush after it, on a store of
\* probe.n_tokens tokens and the buffer probe.word: the number of tokens
\* stored after it; nothing is written
FlushStore ==
    /\ pc = "flush" /\ probe.stored = -1
    /\ probe' = [probe EXCEPT
                    !.stored = Len(Flush(StoreOf(probe.n_tokens), probe.word, 0,
                                         3 * probe.n_tokens + 1))]
    /\ UNCHANGED <<ctlVars, args, setVars, inVars, tokVars, clsVars, anVars, ioVars>>

NextFlush == PickStore \/ FlushStore

SpecFlush == InitFlush /\ [][NextFlush]_vars

\* the buffer has been flushed
Flushed == pc = "flush" /\ probe # NoProbe /\ probe.stored # -1

\* the rule accepts the buffer as a token
AcceptedWord(w) == Len(w) >= 2 /\ IsLetter(CharAt(w, 1))

\* C15: the flush of a word the rule accepts stores a token for it,
\* whatever the number of tokens already stored, or a diagnostic is written.
C15_NoSilentDiscard ==
    (Flushed /\ AcceptedWord(probe.word)) =>
        (probe.stored = probe.n_tokens + 1 \/ err # << >>)

\* the streams the run was given to read: the file operands that can be
\* opened, or stdin when there is no operand
GivenStreams == IF source.files = << >> THEN <<source.stdin>> ELSE ReadableFiles

\* C16: the token sequence of the personality filter is the sequence of
\* the maximal runs of letters, apostrophes and hyphens of its input that
\* start with a letter and have at least 2 characters, each lowercased, in
\* input order; the density analyzer counts the runs that start with a
\* letter, of any length.
C16_TokensAreRuns ==
    ReadAll =>
        /\ FilterRun => TokenWords = WordsOfFiles(GivenStreams, 2)
        /\ AnalyzerRun => total_tokens = Len(WordsOfFiles(GivenStreams, 1))

(* ---------------------------------------------------------------------- *)
(* C17: the tokens of a list of files are the tokens of the first file,   *)
(* then those of the second, and so on, numbered through; no token is     *)
(* made of characters of two files; the window of a hit reaches into the  *)
(* neighbouring file.                                                     *)
(* ---------------------------------------------------------------------- *)
\* the tokens stored while stream f (counted from 0) was read
TokensBefore(f) == Cardinality({k \in 1..n_tokens : token_file[k] < f})
TokensIn(f) == Cardinality({k \in 1..n_tokens : token_file[k] = f})
WordsFrom(f) == SubSeq(TokenWords, TokensBefore(f) + 1, TokensBefore(f) + TokensIn(f))

\* token j (counted from 0) is a personality marker read from another
\* stream than token k
MarkerAcross(k, j) == IsPers(j) /\ token_file[j + 1] # token_file[k + 1]

\* the run has ended, with a report or with an error
Ended == pc \in {"done", "exit"}

UsageError == args.result = "unknown" \/ opts.result = "unknown"

\* a lexicon file was named that cannot be read
LexiconError ==
    \/ FilterRun /\ \E f \in {args.void_file, args.pers_file} : f # NULL /\ ~FileReadable(f)
    \/ AnalyzerRun /\ opts.wordlist_file # NULL /\ ~FileReadable(opts.wordlist_file)

\* the lexicons are still being loaded
Loading == pc \in LoadPcs \cup {"an_load"}

FailedEarly ==
    /\ pc = "exit" /\ exit_status > 0
    /\ source = NoSource /\ tokens = << >> /\ total_tokens = 0
    /\ out = << >>

C18_EarlyErrors ==
    /\ UsageError => FailedEarly /\ Reported("usage") # << >>
    /\ (LexiconError /\ ~Loading) => FailedEarly
    /\ pc = "done" => exit_status = 0 /\ out # << >>

\* an option that takes a value is the last argument
C18_Witness ==
    /\ UsageError /\ pc = "exit"
    /\ \E k \in DOMAIN err : err[k] \in {Message("unknown_option", "-w"),
                                         Message("unknown_option", "-b")}

C18_UnknownWitness ==
    UsageError /\ pc = "exit" /\ Message("unknown_option", "-x") \in {err[k] : k \in DOMAIN err}

C18_LexiconWitness == FilterRun /\ LexiconError /\ pc = "exit"

C18_WordlistWitness == AnalyzerRun /\ LexiconError /\ pc = "exit"

C18_DoneWitness == pc = "done" /\ exit_status = 0 /\ source # NoSource

(* ---------------------------------------------------------------------- *)
(* C19: in quiet mode a run of the filter that completes writes one       *)
(* record and nothing else: raw hits, personality hits, residual hits,    *)
(* anomalous hits, tokens, then the z-scores of the raw, the residual and *)
(* the anomalous count, in this order; no report, no debug listing and no *)
(* section table, the debug and section flags notwithstanding.            *)
(* ---------------------------------------------------------------------- *)
\* the counts taken from the tokens and the labels of the hits
RawHits == Cardinality({k \in 0..(n_tokens - 1) : IsVoid(k)})
PersonalityHits == Cardinality(HitsLabeled("P"))
AnomalousHits == Cardinality(HitsLabeled("A"))
ZOf(count) == z_test(count, n_tokens, atof(args.baseline))

ExpectedFields ==
    <<RawHits, PersonalityHits, RawHits - PersonalityHits, AnomalousHits, n_tokens,
      ZOf(RawHits), ZOf(RawHits - PersonalityHits), ZOf(AnomalousHits)>>

NonPersonalityHits == Cardinality(HitsLabeled("R")) + Cardinality(HitsLabeled("A"))

C20_ResidualIsNonPersonality ==
    /\ Classifying =>
         /\ residual_void = NonPersonalityHits
         /\ residual_void = total_void - personality_void
         /\ anomalous_void <= residual_void
    /\ FilterRun =>
         \A k \in DOMAIN out :
            /\ out[k].kind = "report" => out[k].z_resid = ZOf(NonPersonalityHits)
            /\ out[k].kind = "record" =>
                 /\ out[k].fields[3] = NonPersonalityHits
                 /\ out[k].fields[7] = ZOf(NonPersonalityHits)

\* a report on a corpus with a hit of each label
C20_Witness ==
    /\ pc = "done" /\ Written("report") # << >>
    /\ Cardinality(HitsLabeled("P")) >= 1
    /\ Cardinality(HitsLabeled("A")) >= 1
    /\ Cardinality(HitsLabeled("R")) >= 1
    /\ anomalous_void < residual_void /\ residual_void < total_void
    /\ Written("report")[1].z_resid.num # Written("report")[1].z_anom.num

(* ---------------------------------------------------------------------- *)
(* C21: the window scan makes no lookup in a lexicon set; it reads the    *)
(* flags stored on the tokens.                                            *)
(* ---------------------------------------------------------------------- *)
C21_NoLookupInScan == scanned.lookups = 0

(* ---------------------------------------------------------------------- *)
(* The z-test on its own                                                  *)
(* ---------------------------------------------------------------------- *)
ZTestMax == 4

\* the baselines as they are written on the command line
ZBaselines == {"0", "1", "0.0", "1.0", "1.0000", "0.5", "0.05", "2"}

\* a count, a positive total and a baseline: the small ones, and the
\* largest corpus against the baselines 0 and 1
ZCases ==
    {[observed |-> o, total |-> t, baseline |-> b] :
        o \in 0..ZTestMax, t \in 1..ZTestMax, b \in ZBaselines}
    \cup {[observed |-> o, total |-> MAX_TOKENS, baseline |-> b] :
              o \in {0, MAX_TOKENS}, b \in {"0", "1"}}

InitZTest == StateIs([StartState EXCEPT !.pc = "z_test"])

PickZCase ==
    /\ pc = "z_test" /\ probe = NoProbe
    /\ \E c \in ZCases :
         probe' = [observed |-> c.observed, total |-> c.total,
                   baseline |-> c.baseline, applied |-> 0, z |-> NaN]
    /\ UNCHANGED <<ctlVars, args, setVars, inVars, tokVars, clsVars, anVars, ioVars>>

\* baseline = atof(argv[++argi]); z_test(observed, total, baseline)
ApplyZTest ==
    /\ pc = "z_test" /\ probe # NoProbe /\ probe.applied = 0
    /\ probe' = [probe EXCEPT !.applied = 1,
                               !.z = z_test(probe.observed, probe.total, atof(probe.baseline))]
    /\ UNCHANGED <<ctlVars, args, setVars, inVars, tokVars, clsVars, anVars, ioVars>>

NextZTest == PickZCase \/ ApplyZTest

SpecZTest == InitZTest /\ [][NextZTest]_vars

ZTested == pc = "z_test" /\ probe # NoProbe /\ probe.applied = 1

(* ---------------------------------------------------------------------- *)
(* C22: for a baseline of 0 or of 1 the z-test returns 0, not NaN and not *)
(* an infinity, whatever the count and the positive total.                *)
(* ---------------------------------------------------------------------- *)
C22_ZeroAtDegenerateBaseline ==
    (ZTested /\ probe.total > 0 /\ atof(probe.baseline) \in {0, 10000}) =>
        probe.z = [num |-> 0, var |-> 1]

\* a count that differs from the expected one, against the baseline 1
C22_Witness ==
    /\ ZTested /\ probe.baseline = "1.0" /\ probe.observed = 1 /\ probe.total = 3
    /\ probe.z.num = 0 /\ probe.z.var = 1

C22_ZeroBaselineWitness ==
    /\ ZTested /\ probe.baseline = "0" /\ probe.observed = MAX_TOKENS /\ probe.total = MAX_TOKENS
    /\ probe.z.num = 0

(* ---------------------------------------------------------------------- *)
(* C23: the hit token is not counted in its own window: a cluster-term    *)
(* token that is itself a personality marker or a technical marker, with  *)
(* no other marker of either kind within W tokens, is labeled Residual.   *)
(* ---------------------------------------------------------------------- *)
\* token k is a marker and none of its neighbours is
LoneMarker(k) ==
    /\ IsPers(k) \/ IsTech(k)
    /\ \A j \in WindowOf(k) : ~IsPers(j) /\ ~IsTech(j)

C23_HitNotInOwnWindow ==
    (FilterRun /\ Classifying) =>
        \A h \in DOMAIN hits :
            LoneMarker(hits[h].token_idx) =>
                /\ hits[h].classification = "R"
                /\ hits[h].personality_count = 0
                /\ hits[h].technical_count = 0

\* a cluster term that is a personality marker, next to a plain word
C23_Witness ==
    /\ pc = "done" /\ FilterRun
    /\ \E h \in DOMAIN hits :
         /\ IsPers(hits[h].token_idx) /\ LoneMarker(hits[h].token_idx)
         /\ WindowOf(hits[h].token_idx) # {}
         /\ hits[h].classification = "R"

\* a cluster term that is a technical marker
C23_TechnicalWitness ==
    /\ pc = "done" /\ FilterRun
    /\ \E h \in DOMAIN hits :
         /\ IsTech(hits[h].token_idx) /\ LoneMarker(hits[h].token_idx)
         /\ hits[h].classification = "R"

(* ---------------------------------------------------------------------- *)
(* Short runs with hits of every label, and the step that logs a hit on   *)
(* logs of every size                                                     *)
(* ---------------------------------------------------------------------- *)
LogSources == { [files |-> << >>, stdin |-> t] : t \in Texts(MaxSplitChunks) }

LogSmall == 8

\* a log of n Residual hits, at the tokens 0 .. n - 1
LogOf(n) ==
    [k \in 1..n |->
        [token_idx |-> k - 1,
         has_personality |-> 0, has_technical |-> 0,
         personality_count |-> 0, technical_count |-> 0,
         classification |-> "R"]]

\* the hit at token k with the given window counts
HitWith(k, pers, tech) ==
    [token_idx |-> k,
     has_personality |-> IF pers > 0 THEN 1 ELSE 0,
     has_technical |-> IF tech > 0 THEN 1 ELSE 0,
     personality_count |-> pers,
     technical_count |-> tech,
     classification |-> Classify(pers, tech)]

\* a log size and the next hit: the small logs, the log with one free
\* entry and the full log
LogCases ==
    {[n_hits |-> n, hit |-> HitWith(n + d, pers, tech)] :
        n \in 0..LogSmall \cup {MAX_HIT_LOG - 1, MAX_HIT_LOG},
        d \in 0..2, pers \in 0..1, tech \in 0..1}

InitLog == Init \/ StateIs([StartState EXCEPT !.pc = "log"])

PickLog ==
    /\ pc = "log" /\ probe = NoProbe
    /\ \E c \in LogCases :
         probe' = [n_hits |-> c.n_hits, hit |-> c.hit, applied |-> 0,
                   after |-> 0, kept |-> FALSE, last |-> -1]
    /\ UNCHANGED <<ctlVars, args, setVars, inVars, tokVars, clsVars, anVars, ioVars>>

\* the logging step of the classification loop on the log of probe.n_hits
\* entries: the length of the log after it, whether the entries it had are
\* the same, and the token of its last entry
ApplyLogHit ==
    /\ pc = "log" /\ probe # NoProbe /\ probe.applied = 0
    /\ LET log == LogOf(probe.n_hits)
           res == LogHit(log, probe.hit)
       IN  probe' = [probe EXCEPT
                        !.applied = 1,
                        !.after = Len(res),
                        !.kept = (SubSeq(res, 1, probe.n_hits) = log),
                        !.last = res[Len(res)].token_idx]
    /\ UNCHANGED <<ctlVars, args, setVars, inVars, tokVars, clsVars, anVars, ioVars>>

NextLog ==
    \/ ParseArgs(Argvs)
    \/ LoadBegin
    \/ LoadFileLine
    \/ LoadDefaultWord
    \/ LoadEnd
    \/ OpenInputs(LogSources)
    \/ ReadChar
    \/ EndOfFile
    \/ CloseFinal
    \/ ClassifyToken
    \/ ClassifyEnd
    \/ CountMarkers
    \/ CountMarkersEnd
    \/ Output
    \/ PickLog
    \/ ApplyLogHit

SpecLog == InitLog /\ [][NextLog]_vars

(* ---------------------------------------------------------------------- *)
(* C24: the hit log holds the earliest hits, as many as there are or as   *)
(* the log can hold, in increasing order of token index; every entry is   *)
(* the entry of a cluster-term token and its label is the one its stored  *)
(* counts give; an entry once written is not changed.                     *)
(* ---------------------------------------------------------------------- *)
LabelOfCounts(pers, tech) ==
    CASE pers > 0 -> "P"
      [] pers = 0 /\ tech > 0 -> "A"
      [] pers = 0 /\ tech = 0 -> "R"

LogHoldsEarliest ==
    LET seen == VoidSeen
        last == hits[n_hits].token_idx
    IN  /\ n_hits = Min(Cardinality(seen), MAX_HIT_LOG)
        /\ \A h \in 1..(n_hits - 1) : hits[h].token_idx < hits[h + 1].token_idx
        /\ \A h \in DOMAIN hits :
              /\ hits[h].token_idx \in 0..(Passed - 1)
              /\ IsVoid(hits[h].token_idx)
              /\ hits[h].classification =
                    LabelOfCounts(hits[h].personality_count, hits[h].technical_count)
        /\ n_hits > 0 => Cardinality({k \in seen : k <= last}) = n_hits

LogEntriesKept == Len(hits') >= n_hits /\ SubSeq(hits', 1, n_hits) = hits

\* the logging step has been applied to the log of probe.n_hits entries
LogApplied == pc = "log" /\ probe # NoProbe /\ probe.applied = 1

\* the log after the step: one entry more, the new hit, while there is
\* room; the same log when it is full
LogStepKeepsEarliest ==
    /\ probe.kept
    /\ probe.after = Min(probe.n_hits + 1, MAX_HIT_LOG)
    /\ probe.last = IF probe.n_hits < MAX_HIT_LOG THEN probe.hit.token_idx
                    ELSE MAX_HIT_LOG - 1

C24_LogKeepsEarliest ==
    [][ /\ (FilterRun /\ Classifying) =>
              /\ LogHoldsEarliest
              /\ LogHoldsEarliest'
              /\ LogEntriesKept
        /\ LogApplied' => LogStepKeepsEarliest' ]_vars

\* the log is full and a later hit arrives
C24_Witness ==
    /\ LogApplied
    /\ probe.n_hits = MAX_HIT_LOG /\ probe.hit.token_idx > MAX_HIT_LOG
    /\ probe.after = MAX_HIT_LOG /\ probe.kept

\* a short run has logged hits of two labels
C24_LabelsWitness ==
    /\ pc = "done" /\ n_hits >= 2
    /\ HitsLabeled("R") # {} /\ HitsLabeled("P") # {}

(* ---------------------------------------------------------------------- *)
(* C25: the density analyzer ignores a -B argument without ':': the       *)
(* baselines are those of the same command line without it, nothing is    *)
(* written about it, the arguments after it are parsed, and the run ends   *)
(* with status 0.                                                         *)
(* ---------------------------------------------------------------------- *)
\* the positions of argv at which main reads an option, from position k on
RECURSIVE OptionsFrom(_, _)
OptionsFrom(argv, k) ==
    IF k > Len(argv) \/ CharAt(argv[k], 1) # "-" \/ argv[k] = "--" THEN {}
    ELSE IF argv[k] \in {"-w", "-b", "-B"} /\ k < Len(argv)
    THEN {k} \cup OptionsFrom(argv, k + 2)
    ELSE {k} \cup OptionsFrom(argv, k + 1)

\* the -B options whose argument has no ':'
MalformedAt(argv) ==
    {k \in OptionsFrom(argv, 2) :
        argv[k] = "-B" /\ k < Len(argv) /\ IndexIn(argv[k + 1], ":") = 0}

\* the command line without them and their arguments
WithoutMalformed(argv) ==
    LET dropped == MalformedAt(argv) \cup {k + 1 : k \in MalformedAt(argv)}
        kept == {k \in 1..Len(argv) : k \notin dropped}
        Nth(j) == CHOOSE k \in kept : Cardinality({h \in kept : h <= k}) = j
    IN  [j \in 1..Cardinality(kept) |-> argv[Nth(j)]]

\* the analyzer has parsed a command line with such an option
ParsedMalformed == opts.result # "parse" /\ MalformedAt(opts.argv) # {}

C25_MalformedBaselineIgnored ==
    ParsedMalformed =>
        LET clean == WithoutMalformed(opts.argv)
            ref == AnParseOptions(clean, OptsFor(clean))
        IN  /\ opts.baselines_lbl = ref.baselines_lbl
            /\ opts.baselines_val = ref.baselines_val
            /\ opts.quiet = ref.quiet
            /\ opts.wordlist_file = ref.wordlist_file
            /\ opts.result = ref.result
            /\ opts.argi = ref.argi + 2 * Cardinality(MalformedAt(opts.argv))
            /\ opts.result = "run" =>
                  /\ \A k \in DOMAIN err : err[k].kind \in {"perror", "no_tokens"}
                  /\ pc \in {"an_done", "exit"} =>
                        (total_tokens > 0 <=> pc = "an_done" /\ exit_status = 0)

\* the run with -B none -q -B x:0.2 has ended: the options after the
\* ignored one are in force
C25_Witness ==
    /\ ParsedMalformed /\ pc = "an_done" /\ exit_status = 0
    /\ opts.quiet = 1
    /\ opts.baselines_lbl = <<"default", "x">>
    /\ Written("record") # << >>

\* the option after the ignored one is not known: the usage error is the
\* one of the command line without the ignored option
C25_UnknownAfterWitness ==
    ParsedMalformed /\ opts.result = "unknown" /\ pc = "exit"

(* ---------------------------------------------------------------------- *)
(* C26: after tokenization the token sequence is left as it is: the       *)
(* classification loop, the marker pass and the output change no token's   *)
(* word, flags, section id or offset, and the number of tokens stays.      *)
(* ---------------------------------------------------------------------- *)
C26_TokensFrozen ==
    [][ (FilterRun /\ Classifying) =>
            /\ tokens' = tokens
            /\ Len(tokens') = Len(tokens)
            /\ token_file' = token_file ]_vars

\* a run has ended: hits of a personality window were classified and
\* logged, markers were counted and the output was written
C26_Witness ==
    /\ FilterRun /\ pc = "done"
    /\ n_tokens >= 3
    /\ personality_void > 0 /\ Len(hits) > 0
    /\ total_personality_markers > 0
    /\ out # << >>

(* ---------------------------------------------------------------------- *)
(* The guarded writes into the fixed-capacity tables, on tables of given  *)
(* sizes                                                                  *)
(* ---------------------------------------------------------------------- *)
\* how far beyond a capacity the sizes go
CapBeyond == 1

\* the capacity of a table; for the sections and the word buffer the
\* greatest index written
CapOf(table) ==
    CASE table = "tokens" -> MAX_TOKENS
      [] table = "hits" -> MAX_HIT_LOG
      [] table = "paragraphs" -> MAX_PARAGRAPHS - 1
      [] table = "word" -> MAX_WORD_LEN - 1
      [] table = "inputs" -> MAX_INPUTS
      [] table = "cluster_hits" -> MAX_WORDLIST
      [] table = "baselines" -> MAX_BASELINES

CapTables ==
    {"tokens", "hits", "paragraphs", "word", "inputs", "cluster_hits", "baselines"}

\* a table and its size before the write: small, one below the capacity, at
\* the capacity; for the inputs the number of operands, which may exceed it
CapCases ==
    {[table |-> t, n |-> n] : t \in CapTables, n \in 1..3}
    \cup {[table |-> t, n |-> CapOf(t) - d] : t \in CapTables, d \in 0..1}
    \cup {[table |-> "inputs", n |-> MAX_INPUTS + d] : d \in 1..CapBeyond}

\* the size of the table after the write
CapAfter(table, n) ==
    CASE table = "tokens" ->
            Len(Flush(StoreOf(n), "ab", 0, 3 * n + 1))
      [] table = "hits" ->
            Len(LogHit(LogOf(n), HitWith(n, 0, 0)))
      [] table = "paragraphs" ->
            NextSection(n)
      [] table = "word" ->
            Len(PutChar(Rep("a", n), "a"))
      [] table = "inputs" ->
            Len(OpenedInputs([files |-> [k \in 1..n |-> "a"], stdin |-> ""]))
      [] table = "cluster_hits" ->
            Len(record_hit([k \in 1..n |-> [word |-> BigWord(k - 1), count |-> 1]], "zz"))
      [] table = "baselines" ->
            Len(AddBaseline([OptsStart EXCEPT
                               !.baselines_lbl = [k \in 1..n |-> "l"],
                               !.baselines_val = [k \in 1..n |-> 500]],
                            "x:0.2").baselines_val)

InitCaps == InitTools \/ StateIs([StartState EXCEPT !.pc = "caps"])

PickCap ==
    /\ pc = "caps"
    /\ \E c \in CapCases :
         probe' = [table |-> c.table, n |-> c.n, applied |-> 0, after |-> 0]
    /\ UNCHANGED <<ctlVars, args, setVars, inVars, tokVars, clsVars, anVars, ioVars>>

\* the write that follows the capacity test, on a table of probe.n entries
ApplyCap ==
    /\ pc = "caps" /\ probe # NoProbe /\ probe.applied = 0
    /\ probe' = [probe EXCEPT !.applied = 1, !.after = CapAfter(probe.table, probe.n)]
    /\ UNCHANGED <<ctlVars, args, setVars, inVars, tokVars, clsVars, anVars, ioVars>>

NextCaps ==
    \/ ParseArgs(ToolArgvs)
    \/ LoadBegin
    \/ LoadFileLine
    \/ LoadDefaultWord
    \/ LoadEnd
    \/ OpenInputs(ToolSources)
    \/ ReadChar
    \/ EndOfFile
    \/ CloseFinal
    \/ ClassifyToken
    \/ ClassifyEnd
    \/ CountMarkers
    \/ CountMarkersEnd
    \/ Output
    \/ AnParseArgs(ToolAnArgvs)
    \/ AnLoadBegin
    \/ AnLoadFileLine
    \/ AnLoadDefaultWord
    \/ AnLoadEnd
    \/ AnOpenInputs(ToolAnSources)
    \/ AnReadChar
    \/ AnEndOfFile
    \/ AnReport
    \/ PickCap
    \/ ApplyCap

SpecCaps == InitCaps /\ [][NextCaps]_vars

CapApplied == pc = "caps" /\ probe # NoProbe /\ probe.applied = 1

\* the tables of the state are within their capacities
TablesWithinCapacity ==
    /\ n_tokens <= MAX_TOKENS
    /\ n_hits <= MAX_HIT_LOG
    /\ n_paragraphs >= 0 /\ n_paragraphs < MAX_PARAGRAPHS
    /\ \A p \in DOMAIN paragraphs : p >= 0 /\ p < MAX_PARAGRAPHS
    /\ wpos <= MAX_WORD_LEN - 1
    /\ n_inputs <= MAX_INPUTS
    /\ n_cluster_hits <= MAX_WORDLIST
    /\ Len(opts.baselines_val) <= MAX_BASELINES
    /\ Len(opts.baselines_lbl) = Len(opts.baselines_val)
    /\ \A b \in DOMAIN opts.baselines_lbl : Len(opts.baselines_lbl[b]) <= MAX_LABEL_LEN

(* ---------------------------------------------------------------------- *)
(* C27: every index into a fixed-capacity table stays within the          *)
(* capacity: tokens <= MAX_TOKENS, logged hits <= MAX_HIT_LOG, section     *)
(* index < MAX_PARAGRAPHS, word-buffer position <= MAX_WORD_LEN - 1,       *)
(* opened inputs <= 256, frequency-table entries <= MAX_WORDLIST, stored   *)
(* baselines <= 16; a write on a table at its capacity leaves the size.    *)
(* ---------------------------------------------------------------------- *)
C27_IndicesWithinCapacity ==
    /\ TablesWithinCapacity
    /\ CapApplied =>
          /\ probe.after <= CapOf(probe.table)
          /\ probe.after >= Min(probe.n, CapOf(probe.table))

\* the write on the full token store
C27_Witness ==
    /\ CapApplied /\ probe.table = "tokens"
    /\ probe.n = MAX_TOKENS /\ probe.after = MAX_TOKENS

\* a write on each table at its capacity, and with more operands than
\* streams can be opened
C27_HitsWitness == CapApplied /\ probe.table = "hits" /\ probe.n = MAX_HIT_LOG
C27_SectionsWitness == CapApplied /\ probe.table = "paragraphs" /\ probe.n = MAX_PARAGRAPHS - 1
C27_InputsWitness == CapApplied /\ probe.table = "inputs" /\ probe.n > MAX_INPUTS
C27_TableWitness == CapApplied /\ probe.table = "cluster_hits" /\ probe.n = MAX_WORDLIST
C27_BaselinesWitness == CapApplied /\ probe.table = "baselines" /\ probe.n = MAX_BASELINES

\* a run whose word buffer is full
C27_WordBufferWitness == pc = "read" /\ wpos = MAX_WORD_LEN - 1

(* ---------------------------------------------------------------------- *)
(* C28: after tokenization the section id stored on every token is the    *)
(* index of the reported section whose range [start_token, end_token)      *)
(* holds the token, whatever the number of blank-line boundaries.          *)
(* ---------------------------------------------------------------------- *)
\* the section id of token k names a reported section that holds k
InOwnSection(k) ==
    LET p == Tok(tokens, k).para_id
    IN  /\ p >= 0 /\ p < n_paragraphs
        /\ InParagraph(paragraphs, p, k)

C28_ParaIdIsSectionIndex ==
    (FilterRun /\ Classifying) => \A k \in 0..(n_tokens - 1) : InOwnSection(k)

(* ---------------------------------------------------------------------- *)
(* One corpus classified under two window radii, with the built-in word   *)
(* lists                                                                  *)
(* ---------------------------------------------------------------------- *)
RadiiLen == 4

RadiiWords == {"void", "lol", "api", "ok"}

\* the arguments given to -w
RadiiArgs == {"0", "1", "2", "3", "200"}

InitRadii ==
    StateIs([StartState EXCEPT
               !.pc = "radii",
               !.args = [ArgsStart EXCEPT !.result = "run"],
               !.void_set = LoadAllDefaults(VOID_CLUSTER),
               !.pers_set = LoadAllDefaults(PERSONALITY_MARKERS),
               !.tech_set = LoadAllDefaults(TECHNICAL_MARKERS)])

PickRadii ==
    /\ pc = "radii" /\ probe = NoProbe
    /\ \E ws \in [1..RadiiLen -> RadiiWords], a \in RadiiArgs, b \in RadiiArgs :
         probe' = [toks |-> [k \in 1..RadiiLen |-> NewToken(ws[k], 0, 5 * k - 4)],
                   small |-> a, large |-> b, applied |-> 0,
                   run_small |-> << >>, run_large |-> << >>]
    /\ UNCHANGED <<ctlVars, args, setVars, inVars, tokVars, clsVars, anVars, ioVars>>

\* the hits among the labels whose Tally increments the counter Field
TallyCount(labels, Field(_)) ==
    Cardinality({k \in DOMAIN labels :
                    labels[k] # "-" /\ Field(Tally(labels[k])) = 1})

TallyPersonality(t) == t.personality_void
TallyResidual(t) == t.residual_void
TallyAnomalous(t) == t.anomalous_void

\* the run on toks with -w arg: the radius the option loop leaves, the
\* label of every token ("-" for a token that is no cluster term) and the
\* counters at the end of the classification loop
RunWithRadius(toks, arg) ==
    LET w == ParseOptions(<<"prog", "-w", arg>>, ArgsStart).window
        labels == [k \in 1..Len(toks) |->
                      IF Tok(toks, k - 1).is_void = 1
                      THEN HitOf(toks, tech_set, k - 1, w).classification
                      ELSE "-"]
    IN  [window |-> w,
         labels |-> labels,
         total_void |-> Cardinality({k \in 1..Len(toks) : labels[k] # "-"}),
         personality_void |-> TallyCount(labels, TallyPersonality),
         residual_void |-> TallyCount(labels, TallyResidual),
         anomalous_void |-> TallyCount(labels, TallyAnomalous)]

ClassifyRadii ==
    /\ pc = "radii" /\ probe # NoProbe /\ probe.applied = 0
    /\ probe' = [probe EXCEPT
                   !.applied = 1,
                   !.run_small = RunWithRadius(probe.toks, probe.small),
                   !.run_large = RunWithRadius(probe.toks, probe.large)]
    /\ UNCHANGED <<ctlVars, args, setVars, inVars, tokVars, clsVars, anVars, ioVars>>

NextRadii == PickRadii \/ ClassifyRadii

SpecRadii == InitRadii /\ [][NextRadii]_vars

\* both runs are made and the second was asked for a radius at least as
\* large as the first
RadiiEnlarged ==
    /\ pc = "radii" /\ probe # NoProbe /\ probe.applied = 1
    /\ atoi(probe.small) <= atoi(probe.large)

(* ---------------------------------------------------------------------- *)
(* C29: with the corpus and the word lists fixed, a larger window radius  *)
(* keeps every Personality hit a Personality hit and turns no Anomalous   *)
(* hit into a Residual one: the personality count does not decrease, the  *)
(* non-personality count does not increase, the hit count is the same.    *)
(* ---------------------------------------------------------------------- *)
C29_MonotoneInRadius ==
    RadiiEnlarged =>
        LET s == probe.run_small
            l == probe.run_large
        IN  /\ s.window <= l.window
            /\ \A k \in 1..Len(probe.toks) :
                  /\ s.labels[k] = "-" <=> l.labels[k] = "-"
                  /\ s.labels[k] = "P" => l.labels[k] = "P"
                  /\ s.labels[k] = "A" => l.labels[k] # "R"
            /\ s.personality_void <= l.personality_void
            /\ s.residual_void >= l.residual_void
            /\ s.total_void = l.total_void

\* the larger radius reaches a personality marker the smaller one does
\* not: a Residual hit becomes a Personality hit
C29_Witness ==
    /\ RadiiEnlarged
    /\ probe.run_small.window < probe.run_large.window
    /\ \E k \in 1..Len(probe.toks) :
          probe.run_small.labels[k] = "R" /\ probe.run_large.labels[k] = "P"
    /\ probe.run_small.personality_void < probe.run_large.personality_void

\* an Anomalous hit becomes a Personality hit; a Residual hit becomes an
\* Anomalous one; the radius 200 is run as 100
C29_AnomalousWitness ==
    /\ RadiiEnlarged
    /\ \E k \in 1..Len(probe.toks) :
          probe.run_small.labels[k] = "A" /\ probe.run_large.labels[k] = "P"
    /\ \E k \in 1..Len(probe.toks) :
          probe.run_small.labels[k] = "R" /\ probe.run_large.labels[k] = "A"

C29_ClampedWitness ==
    /\ RadiiEnlarged /\ probe.large = "200" /\ probe.run_large.window = 100
    /\ probe.small = "0" /\ probe.run_small.window = 1
    /\ probe.run_small.anomalous_void > probe.run_large.anomalous_void

(* ---------------------------------------------------------------------- *)
(* The body of the classification loop on hit logs of given sizes         *)
(* ---------------------------------------------------------------------- *)
\* how many hits the loop has passed since the log was full
CountedBeyond == 2

\* the log size, the hits passed since it was full, and the window counts
\* of the hit the loop is at
CountedCases ==
    {[n_hits |-> n, beyond |-> 0, pers |-> pers, tech |-> tech] :
        n \in 0..LogSmall \cup {MAX_HIT_LOG - 1, MAX_HIT_LOG},
        pers \in 0..1, tech \in 0..1}
    \cup {[n_hits |-> MAX_HIT_LOG, beyond |-> b, pers |-> pers, tech |-> tech] :
             b \in 1..CountedBeyond, pers \in 0..1, tech \in 0..1}

\* the counters after total Residual hits at the tokens 0 .. total - 1, of
\* which the log holds n: these tokens are one section, the token the loop
\* is at is the next one
CountersAfter(n, total) ==
    [total_void |-> total, personality_void |-> 0,
     residual_void |-> total, anomalous_void |-> 0,
     hits |-> LogOf(n),
     paragraphs |->
        IF total = 0
        THEN (0 :> [ZeroParagraph EXCEPT !.end_token = 1, !.total_tokens = 1])
        ELSE (0 :> [ZeroParagraph EXCEPT !.end_token = total, !.total_tokens = total,
                                         !.void_hits = total, !.residual_void = total])
             @@ (1 :> [ZeroParagraph EXCEPT !.start_token = total,
                                            !.end_token = total + 1,
                                            !.total_tokens = 1])]

\* what the report is made of: the counters and the hit counts of the
\* sections
CountsOf(c) ==
    [total_void |-> c.total_void, personality_void |-> c.personality_void,
     residual_void |-> c.residual_void, anomalous_void |-> c.anomalous_void,
     sections |-> [p \in DOMAIN c.paragraphs |->
                      <<c.paragraphs[p].void_hits,
                        c.paragraphs[p].personality_void,
                        c.paragraphs[p].residual_void>>]]

InitCounted == Init \/ StateIs([StartState EXCEPT !.pc = "counted"])

PickCounted ==
    /\ pc = "counted" /\ probe = NoProbe
    /\ \E c \in CountedCases :
         probe' = [n_hits |-> c.n_hits, total |-> c.n_hits + c.beyond,
                   hit |-> HitWith(c.n_hits + c.beyond, c.pers, c.tech),
                   applied |-> 0, logged |-> 0,
                   counts |-> CountsOf(CountersAfter(0, 0)),
                   unbounded |-> CountsOf(CountersAfter(0, 0))]
    /\ UNCHANGED <<ctlVars, args, setVars, inVars, tokVars, clsVars, anVars, ioVars>>

\* the loop body for the hit probe.hit on the log of probe.n_hits entries,
\* and the same on a log with room left
ApplyHitStep ==
    /\ pc = "counted" /\ probe # NoProbe /\ probe.applied = 0
    /\ LET np   == IF probe.total = 0 THEN 1 ELSE 2
           c    == CountersAfter(probe.n_hits, probe.total)
           res  == HitStep(c, np, probe.total, probe.hit)
           free == HitStep([c EXCEPT !.hits = << >>], np, probe.total, probe.hit)
       IN  probe' = [probe EXCEPT
                        !.applied = 1,
                        !.logged = Len(res.hits),
                        !.counts = CountsOf(res),
                        !.unbounded = CountsOf(free)]
    /\ UNCHANGED <<ctlVars, args, setVars, inVars, tokVars, clsVars, anVars, ioVars>>

NextCounted ==
    \/ ParseArgs(Argvs)
    \/ LoadBegin
    \/ LoadFileLine
    \/ LoadDefaultWord
    \/ LoadEnd
    \/ OpenInputs(LogSources)
    \/ ReadChar
    \/ EndOfFile
    \/ CloseFinal
    \/ ClassifyToken
    \/ ClassifyEnd
    \/ CountMarkers
    \/ CountMarkersEnd
    \/ Output
    \/ PickCounted
    \/ ApplyHitStep

SpecCounted == InitCounted /\ [][NextCounted]_vars

CountedApplied == pc = "counted" /\ probe # NoProbe /\ probe.applied = 1

\* the label the window of token k gives
LabelIn(k) == LabelOfCounts(PersIn(k), TechIn(k))

\* the hits the loop has passed that have the label, in all and in section p
TokensLabeled(labels) == {k \in VoidSeen : LabelIn(k) \in labels}
TokensLabeledIn(p, labels) ==
    {k \in TokensLabeled(labels) : InParagraph(paragraphs, p, k)}

\* in a run the counters are those of the tokens passed, whatever the log
\* holds
CountedFromTokens ==
    /\ total_void = Cardinality(VoidSeen)
    /\ personality_void = Cardinality(TokensLabeled({"P"}))
    /\ residual_void = Cardinality(TokensLabeled({"R", "A"}))
    /\ anomalous_void = Cardinality(TokensLabeled({"A"}))
    /\ \A p \in 0..(n_paragraphs - 1) :
          /\ paragraphs[p].void_hits = Cardinality(TokensLabeledIn(p, {"P", "R", "A"}))
          /\ paragraphs[p].personality_void = Cardinality(TokensLabeledIn(p, {"P"}))
          /\ paragraphs[p].residual_void = Cardinality(TokensLabeledIn(p, {"R", "A"}))
    /\ pc \in {"output", "done"} =>
          /\ z_raw = z_test(Cardinality(VoidSeen), n_tokens, atof(args.baseline))
          /\ z_resid = z_test(Cardinality(TokensLabeled({"R", "A"})), n_tokens,
                              atof(args.baseline))
          /\ z_anom = z_test(Cardinality(TokensLabeled({"A"})), n_tokens,
                             atof(args.baseline))

\* the loop body counts the hit once, under its label and in its section,
\* as it does when the log has room
StepCountsHit ==
    LET label == probe.hit.classification
        own   == IF probe.total = 0 THEN 0 ELSE 1
        One(b) == IF b THEN 1 ELSE 0
    IN  /\ probe.counts = probe.unbounded
        /\ probe.counts.total_void = probe.total + 1
        /\ probe.counts.personality_void = One(label = "P")
        /\ probe.counts.residual_void = probe.total + One(label # "P")
        /\ probe.counts.anomalous_void = One(label = "A")
        /\ probe.counts.sections[own] =
              <<1, One(label = "P"), One(label # "P")>>
        /\ probe.logged = Min(probe.n_hits + 1, MAX_HIT_LOG)

(* ---------------------------------------------------------------------- *)
(* C30: a hit that finds the hit log full is classified and counted like  *)
(* any other: the corpus counters, the hit counts of the sections and the  *)
(* z statistics are those of the tokens, as with a log without capacity.   *)
(* ---------------------------------------------------------------------- *)
C30_CountsIgnoreLogCapacity ==
    /\ (FilterRun /\ Classifying) => CountedFromTokens
    /\ CountedApplied => StepCountsHit

\* a Personality hit arrives when the log is full and hits were already
\* left out of it
C30_Witness ==
    /\ CountedApplied
    /\ probe.n_hits = MAX_HIT_LOG /\ probe.total > MAX_HIT_LOG
    /\ probe.hit.classification = "P"
    /\ probe.logged = MAX_HIT_LOG
    /\ probe.counts.total_void = probe.total + 1
    /\ probe.counts.personality_void = 1

\* the same for an Anomalous and for a Residual hit
C30_AnomalousWitness ==
    /\ CountedApplied /\ probe.n_hits = MAX_HIT_LOG
    /\ probe.hit.classification = "A" /\ probe.counts.anomalous_void = 1

C30_ResidualWitness ==
    /\ CountedApplied /\ probe.n_hits = MAX_HIT_LOG
    /\ probe.hit.classification = "R"
    /\ probe.counts.residual_void = probe.total + 1

====
